---- MODULE Spec2Model ----
(***************************************************************************)
(* A model of nydusify-py: the image descriptor data model                 *)
(* (nydus_image.py), the blob copy orchestration (copier.py), the repack   *)
(* pipeline (repacker.py), the registry download (manifest.py) and the     *)
(* top-level copy command (main.py).                                       *)
(*                                                                         *)
(* The three external tools (rclone, regctl, nydus-image) are the          *)
(* environment: each invocation is one step whose exit status is chosen    *)
(* nondeterministically.  A successful `rclone copy` of a digest makes the *)
(* blob of that digest present at the target location when the source      *)
(* location holds it; which blobs a location holds is the variable store.  *)
(***************************************************************************)
EXTENDS Integers, Sequences, FiniteSets, TLC

\* ---------------------------------------------------------------- bounds
MaxLayers == 2
MaxRuns == 2
MaxManifestLayers == 2
MaxMutations == 1

\* ------------------------------------------------------------ data model
NydusS3Backend(endpoint, bucket, region, access_key, secret_key, object_prefix) ==
    [kind |-> "s3", endpoint |-> endpoint, bucket |-> bucket, region |-> region,
     access_key |-> access_key, secret_key |-> secret_key,
     object_prefix |-> object_prefix]

NydusLocalFilesystemBackend(blob_dir) ==
    [kind |-> "localfs", blob_dir |-> blob_dir]

NydusBlobLocation(digest, backend) ==
    [digest |-> digest, backend |-> backend]

NydusImageConfig(architecture, os, config) ==
    [architecture |-> architecture, os |-> os, config |-> config]

NydusImageWithBackends(bootstrap_local_path, layers, image_config) ==
    [bootstrap_local_path |-> bootstrap_local_path, layers |-> layers,
     image_config |-> image_config]

\* The values the inputs are drawn from.
S3A == NydusS3Backend("https://s3.one", "bucket-a", "eu", "AK1", "SK1", "nydus/")
S3B == NydusS3Backend("https://s3.one", "bucket-b", "eu", "AK1", "SK1", "nydus/")
LocalA == NydusLocalFilesystemBackend("/blobs/a")
LocalB == NydusLocalFilesystemBackend("/blobs/b")
Backends == {S3A, S3B, LocalA, LocalB}
\* A backend object that is neither of the two classes.
OtherBackend == [kind |-> "other"]
\* The backends the layers of a copy_blobs source are drawn from.
SourceBackends == {S3A, LocalA}

Digests == {"aaaaaaaa", "bbbbbbbb"}
Bootstraps == {"/img/bootstrap", "/other/bootstrap"}
DefaultConfig == NydusImageConfig("amd64", "linux", "None")
ArmConfig == NydusImageConfig("arm64", "linux", "cfg")
ImageConfigs == {DefaultConfig, ArmConfig}

SeqsUpTo(S, n) == UNION {[1..k -> S] : k \in 0..n}
BlobLocations == {NydusBlobLocation(d, b) : d \in Digests, b \in Backends}
LayerLists == SeqsUpTo(BlobLocations, MaxLayers)
SourceLayerLists ==
    SeqsUpTo({NydusBlobLocation(d, b) : d \in Digests, b \in SourceBackends}, MaxLayers)

NoImage == [none |-> TRUE]

\* ---------------------------------------------------------------- state
VARIABLES
    source_image,   \* copy_blobs: its first argument
    target_image,   \* copy_blobs: its second argument
    pc,             \* copy_blobs: "none" | "idle" | "loop" | "done" | "error"
    i,              \* copy_blobs: 1-based index of the next layer pair
    err,            \* copy_blobs: the exception that ended it, or "none"
    calls,          \* every `rclone copy` subprocess run so far, in order
    store,          \* the blobs each storage location holds
    runs,           \* how many times copy_blobs has been entered
    returned,       \* how each earlier run of copy_blobs ended: "done" | "error"
    log             \* every record copy_blob and rclone_copy have logged, in order

copyVars == <<source_image, target_image, pc, i, err, calls, store, runs, returned, log>>

VARIABLES
    image,          \* change_backends: its first argument
    new_backend,    \* change_backends: its second argument
    new_image       \* change_backends: what it returned, NoImage before the call

changeVars == <<image, new_backend, new_image>>

VARIABLES
    world,          \* what the registry, the directories and nydus-image hold
    load,           \* download / read_from_dir: position, regctl blob gets, error
    cmd,            \* CopyCommand.run: position, arguments, its temporary directory
    up,             \* upload: position and the regctl puts made so far
    saved           \* what has been persisted: registry manifest, directory, image

VARIABLES
    rp,             \* repack_image: position, arguments, stages begun, results
    tools           \* every nydus-image subprocess run by repack_image, in order

VARIABLES
    fs,             \* read_from_dir / write_to_dir: what each directory holds
    rt              \* a read, write, read again of directories: position, results

dirVars == <<fs, rt>>

VARIABLES
    args,           \* parse_arguments: the backend type, the config string, the JSON file
    parsed          \* parse_arguments: what it returned or raised, and its warnings

parseVars == <<args, parsed>>

VARIABLES
    heap            \* change_backends: the list and layer objects, by identity

heapVars == <<heap>>
loadVars == <<world, load>>
saveVars == <<up, saved>>
repackVars == <<rp, tools>>

nonCopyVars == <<changeVars, dirVars, parseVars, heapVars, loadVars, cmd, saveVars, repackVars>>
vars == <<copyVars, nonCopyVars>>

\* ------------------------------------------------------- nydus_image.py
\* A change_backends that copies each layer as it is.
change_backends_KeepsBackend(img, backend) ==
    NydusImageWithBackends(
        img.bootstrap_local_path,
        [k \in 1..Len(img.layers) |->
            NydusBlobLocation(img.layers[k].digest, img.layers[k].backend)],
        img.image_config)

\* change_backends: a new descriptor, every layer rebound to the new backend.
change_backends(img, backend) ==
    NydusImageWithBackends(
        img.bootstrap_local_path,
        [k \in 1..Len(img.layers) |->
            NydusBlobLocation(img.layers[k].digest, backend)],
        img.image_config)

\* What `nydus-image inspect --request blobs` can print as blob_id values, and
\* what Python sees in each: whether it is a str, and its characters.
\* "<int 12345678>" stands for a JSON number, the one value here that is not a str.
NotAString == "<int 12345678>"
BlobIds == Digests \cup {"ghijk123", "", "abc123", NotAString}
\* What inspect can print for a bootstrap that `nydus-image create` just wrote.
CreatedBlobIds == {"aaaaaaaa", "cccccccc", "ghijk123", "", "abc123", NotAString}
BlobIdInfo ==
    [id \in BlobIds \cup CreatedBlobIds |->
        IF id = "aaaaaaaa"
        THEN [is_str |-> TRUE, chars |-> <<"a", "a", "a", "a", "a", "a", "a", "a">>]
        ELSE IF id = "bbbbbbbb"
        THEN [is_str |-> TRUE, chars |-> <<"b", "b", "b", "b", "b", "b", "b", "b">>]
        ELSE IF id = "cccccccc"
        THEN [is_str |-> TRUE, chars |-> <<"c", "c", "c", "c", "c", "c", "c", "c">>]
        ELSE IF id = "ghijk123"
        THEN [is_str |-> TRUE, chars |-> <<"g", "h", "i", "j", "k", "1", "2", "3">>]
        ELSE IF id = "abc123"
        THEN [is_str |-> TRUE, chars |-> <<"a", "b", "c", "1", "2", "3">>]
        ELSE IF id = ""
        THEN [is_str |-> TRUE, chars |-> <<>>]
        ELSE [is_str |-> FALSE, chars |-> <<>>]]

HexChars == {"0", "1", "2", "3", "4", "5", "6", "7", "8", "9",
             "a", "b", "c", "d", "e", "f", "A", "B", "C", "D", "E", "F"}

MinDigestLen == 8

\* A get_blob_digests without the minimum length assertion.
LooksLikeHash_NoLength(id) ==
    /\ BlobIdInfo[id].is_str
    /\ Len(BlobIdInfo[id].chars) > 0
    /\ \A k \in 1..Len(BlobIdInfo[id].chars) : BlobIdInfo[id].chars[k] \in HexChars

\* The four assertions of get_blob_digests on one blob id.
LooksLikeHash(id) ==
    /\ BlobIdInfo[id].is_str
    /\ Len(BlobIdInfo[id].chars) > 0
    /\ \A k \in 1..Len(BlobIdInfo[id].chars) : BlobIdInfo[id].chars[k] \in HexChars
    /\ Len(BlobIdInfo[id].chars) >= MinDigestLen

\* get_blob_digests on the blob ids a successful inspect printed: the list
\* itself, or an AssertionError.
get_blob_digests(blob_ids) ==
    IF \A k \in 1..Len(blob_ids) : LooksLikeHash(blob_ids[k])
    THEN [raised |-> "none", digests |-> blob_ids]
    ELSE [raised |-> "AssertionError", digests |-> <<>>]

\* The image a loader builds: every digest bound to the one backend.
BoundImage(bootstrap_path, digests, backend, image_config) ==
    NydusImageWithBackends(
        bootstrap_path,
        [k \in 1..Len(digests) |-> NydusBlobLocation(digests[k], backend)],
        image_config)

\* ----------------------------------------------------------- manifest.py
DockerManifestType == "application/vnd.docker.distribution.manifest.v2+json"
OciManifestType == "application/vnd.oci.image.manifest.v1+json"
OciConfigType == "application/vnd.oci.image.config.v1+json"
DockerConfigType == "application/vnd.docker.container.image.v1+json"
OciLayerType == "application/vnd.oci.image.layer.v1.tar+gzip"
\* An absent string value (dict.get gives None) and an absent object.
Missing == "<missing>"
Absent == [absent |-> TRUE]

ManifestLayer(mediaType, digest, bootstrap, fs_version) ==
    [mediaType |-> mediaType, digest |-> digest,
     annotations |-> [bootstrap |-> bootstrap, fs_version |-> fs_version]]

ManifestLayers ==
    {ManifestLayer(t, "sha256:boot", b, v) :
        t \in {OciLayerType, "application/octet-stream"},
        b \in {"true", Missing},
        v \in {"6", Missing}}

ManifestConfigs ==
    {Absent} \cup {[mediaType |-> t, digest |-> "sha256:config"] :
                        t \in {OciConfigType, DockerConfigType}}

\* The manifests a registry can return for the reference.
Manifests ==
    [schemaVersion : {1, 2},
     mediaType : {DockerManifestType, OciManifestType, "text/plain"},
     config : ManifestConfigs,
     layers : SeqsUpTo(ManifestLayers, MaxManifestLayers)]

\* download, lines 155-175: the checks made before the config blob is fetched.
ManifestError(m) ==
    IF m.schemaVersion # 2
    THEN "ValueError: schema version"
    ELSE IF m.mediaType \notin {DockerManifestType, OciManifestType}
    THEN "ValueError: manifest media type"
    ELSE IF m.config = Absent
    THEN "ValueError: no config section"
    ELSE IF m.config.mediaType # OciConfigType
    THEN "ValueError: config media type"
    ELSE "none"

\* download, lines 192-214: the checks made after the config blob is fetched.
LayersError(m) ==
    IF Len(m.layers) = 0
    THEN "ValueError: no layers"
    ELSE IF Len(m.layers) # 1
    THEN "ValueError: layer count"
    ELSE IF m.layers[1].mediaType # OciLayerType
    THEN "ValueError: layer media type"
    ELSE IF m.layers[1].annotations.bootstrap # "true"
    THEN "ValueError: nydus-bootstrap annotation"
    ELSE IF m.layers[1].annotations.fs_version # "6"
    THEN "ValueError: nydus-fs-version annotation"
    ELSE "none"

NoneValue == "None"

\* The JSON objects a config blob or a config.json can be.
ConfigDicts ==
    {[architecture |-> Missing, os |-> Missing, config |-> Missing],
     [architecture |-> "arm64", os |-> "linux", config |-> "cfg"]}

\* NydusImageConfig.from_dict: absent keys take the defaults.
from_dict(data) ==
    NydusImageConfig(
        IF data.architecture = Missing THEN "amd64" ELSE data.architecture,
        IF data.os = Missing THEN "linux" ELSE data.os,
        IF data.config = Missing THEN NoneValue ELSE data.config)

DownloadedBootstrap == "/tmp/copy/image.boot"
DirBootstrap == "/src/bootstrap"

\* The part of the state a download step leaves alone.
LoadFrame == UNCHANGED <<target_image, pc, i, err, calls, store, runs, returned, log,
                         changeVars, dirVars, parseVars, heapVars, world, cmd,
                         saveVars, repackVars>>

\* One subprocess.run of the loader, and the log with it added.
Invoked(tool, returncode) ==
    Append(load.invocations, [tool |-> tool, returncode |-> returncode])

\* An exception leaves every `with tempfile.NamedTemporaryFile(...)` block it
\* passes through, which deletes the file.
LoadRaise(e, gets, invocations) ==
    /\ load' = [load EXCEPT !.pc = "raised", !.error = e, !.gets = gets,
                            !.invocations = invocations, !.temp_files = {}]
    /\ UNCHANGED source_image

\* download: `regctl manifest get` exits non-zero.
DlManifestGetFail ==
    /\ load.pc = "manifest_get"
    /\ LoadRaise("CalledProcessError", load.gets, Invoked("regctl manifest get", 1))
    /\ LoadFrame

\* download, lines 137-178: the manifest arrives and is checked up to its
\* config section.
DlManifestGetOk ==
    /\ load.pc = "manifest_get"
    /\ IF world.manifest = Absent
       THEN LoadRaise("ValueError: empty output", load.gets,
                      Invoked("regctl manifest get", 0))
       ELSE IF ManifestError(world.manifest) # "none"
       THEN LoadRaise(ManifestError(world.manifest), load.gets,
                      Invoked("regctl manifest get", 0))
       ELSE /\ load' = [load EXCEPT !.pc = "config_get",
                                    !.invocations = Invoked("regctl manifest get", 0),
                                    !.temp_files = {"manifest_file"}]
            /\ UNCHANGED source_image
    /\ LoadFrame

\* download, lines 185-187: `regctl blob get` of the config blob exits non-zero.
DlConfigGetFail ==
    /\ load.pc = "config_get"
    /\ LoadRaise("CalledProcessError", Append(load.gets, world.manifest.config.digest),
                 Invoked("regctl blob get", 1))
    /\ LoadFrame

\* download, lines 185-216: the config blob arrives, then the layers are checked.
DlConfigGetOk ==
    /\ load.pc = "config_get"
    /\ LET gets == Append(load.gets, world.manifest.config.digest) IN
       IF LayersError(world.manifest) # "none"
       THEN LoadRaise(LayersError(world.manifest), gets, Invoked("regctl blob get", 0))
       ELSE /\ load' = [load EXCEPT !.pc = "layer_get", !.gets = gets,
                                    !.invocations = Invoked("regctl blob get", 0),
                                    !.temp_files = load.temp_files \cup {"config_file"}]
            /\ UNCHANGED source_image
    /\ LoadFrame

\* A download that tries the bootstrap layer again after a failed get.
DlLayerGetFail_Retried ==
    /\ load.pc = "layer_get"
    /\ load' = [load EXCEPT !.invocations = Invoked("regctl blob get", 1),
                            !.gets = Append(load.gets, world.manifest.layers[1].digest)]
    /\ UNCHANGED source_image
    /\ LoadFrame

\* download, lines 223-232: `regctl blob get` of the bootstrap layer exits non-zero.
DlLayerGetFail ==
    /\ load.pc = "layer_get"
    /\ LoadRaise("CalledProcessError", Append(load.gets, world.manifest.layers[1].digest),
                 Invoked("regctl blob get", 1))
    /\ LoadFrame

\* download, lines 223-245: the layer arrives and image/image.boot is extracted.
DlLayerGetOk ==
    /\ load.pc = "layer_get"
    /\ LET gets == Append(load.gets, world.manifest.layers[1].digest) IN
       IF ~world.boot_in_tar
       THEN LoadRaise("ValueError: image/image.boot not found", gets,
                      Invoked("regctl blob get", 0))
       ELSE /\ load' = [load EXCEPT !.pc = "inspect", !.gets = gets,
                                    !.invocations = Invoked("regctl blob get", 0),
                                    !.temp_files = load.temp_files \cup {"temp_tar"},
                                    !.bootstrap = DownloadedBootstrap,
                                    !.config = world.config_blob]
            /\ UNCHANGED source_image
    /\ LoadFrame

\* get_blob_digests: `nydus-image inspect` exits non-zero.
InspectFail ==
    /\ load.pc = "inspect"
    /\ LoadRaise("CalledProcessError", load.gets, Invoked("nydus-image inspect", 1))
    /\ LoadFrame

\* get_blob_digests succeeds or trips an assertion; the loader builds the image.
InspectOk ==
    /\ load.pc = "inspect"
    /\ LET r == get_blob_digests(world.inspect_blobs) IN
       IF r.raised # "none"
       THEN LoadRaise(r.raised, load.gets, Invoked("nydus-image inspect", 0))
       ELSE /\ load' = [load EXCEPT !.pc = "returned", !.temp_files = {},
                                    !.invocations = Invoked("nydus-image inspect", 0)]
            /\ source_image' =
                  BoundImage(load.bootstrap, r.digests, cmd.source_backend,
                             IF load.config = Absent THEN DefaultConfig
                             ELSE from_dict(load.config))
    /\ LoadFrame

\* read_from_dir, lines 101-117: the bootstrap must exist; config.json may.
ReadFromDir ==
    /\ load.pc = "read_dir"
    /\ IF ~world.dir_bootstrap
       THEN LoadRaise("FileNotFoundError", load.gets, load.invocations)
       ELSE /\ load' = [load EXCEPT !.pc = "inspect", !.bootstrap = DirBootstrap,
                                    !.config = world.dir_config]
            /\ UNCHANGED source_image
    /\ LoadFrame

\* create_oci_manifest (the size fields are left out).
create_oci_manifest(config_digest, bootstrap_digest) ==
    [schemaVersion |-> 2,
     mediaType |-> DockerManifestType,
     config |-> [mediaType |-> DockerConfigType, digest |-> config_digest],
     layers |-> <<ManifestLayer(OciLayerType, bootstrap_digest, "true", "6")>>]

UpFrame == UNCHANGED <<copyVars, changeVars, dirVars, parseVars, heapVars, loadVars, cmd, repackVars>>

\* One `regctl ... put` run and its exit status.
RegctlPut(call, returncode) == [call |-> call, returncode |-> returncode]

\* The digests `regctl blob put` can print for the bootstrap tarball and for
\* the config blob.
BootstrapDigests == {"sha256:boot", "sha256:b00t"}
ConfigDigests == {"sha256:config", "sha256:c0nf"}

UpRaise(call) ==
    /\ up' = [up EXCEPT !.pc = "raised", !.puts = Append(up.puts, RegctlPut(call, 1)),
                        !.temp_files = {}]
    /\ UNCHANGED saved

\* upload, lines 36-38: `regctl blob put` of the bootstrap tarball.
UpBlobPutOk ==
    /\ up.pc = "blob_put"
    /\ \E digest \in BootstrapDigests :
          /\ up' = [up EXCEPT !.pc = "config_put",
                              !.puts = Append(up.puts, RegctlPut("blob put bootstrap", 0)),
                              !.bootstrap_digest = digest,
                              !.temp_files = {"temp_tar"}]
          /\ saved' = [saved EXCEPT !.blobs = saved.blobs \cup {digest}]
    /\ UpFrame

UpBlobPutFail ==
    /\ up.pc = "blob_put"
    /\ UpRaise("blob put bootstrap")
    /\ UpFrame

\* upload, lines 59-61: `regctl blob put` of the config blob.
UpConfigPutOk ==
    /\ up.pc = "config_put"
    /\ \E digest \in ConfigDigests :
          /\ up' = [up EXCEPT !.pc = "manifest_put",
                              !.puts = Append(up.puts, RegctlPut("blob put config", 0)),
                              !.config_digest = digest,
                              !.temp_files = up.temp_files \cup {"config_file"}]
          /\ saved' = [saved EXCEPT !.blobs = saved.blobs \cup {digest}]
    /\ UpFrame

\* An upload that carries on after a failed put of the config blob.
UpConfigPutFail_Swallowed ==
    /\ up.pc = "config_put"
    /\ up' = [up EXCEPT !.pc = "manifest_put",
                        !.puts = Append(up.puts, RegctlPut("blob put config", 1))]
    /\ UNCHANGED saved
    /\ UpFrame

UpConfigPutFail ==
    /\ up.pc = "config_put"
    /\ UpRaise("blob put config")
    /\ UpFrame

\* upload, lines 68-84: the manifest is built and `regctl manifest put` is run.
UpManifestPutOk ==
    /\ up.pc = "manifest_put"
    /\ up' = [up EXCEPT !.pc = "returned",
                        !.puts = Append(up.puts, RegctlPut("manifest put", 0)),
                        !.temp_files = {}]
    /\ saved' = [saved EXCEPT
                    !.manifest = create_oci_manifest(up.config_digest, up.bootstrap_digest),
                    !.image = target_image]
    /\ UpFrame

UpManifestPutFail ==
    /\ up.pc = "manifest_put"
    /\ UpRaise("manifest put")
    /\ UpFrame

\* NydusImageConfig.to_dict: config is written only when it is not None.
to_dict(image_config) ==
    [architecture |-> image_config.architecture, os |-> image_config.os,
     config |-> IF image_config.config = NoneValue THEN Missing ELSE image_config.config]

\* ------------------------------------- nydus_image.py: directories
\* directory / "bootstrap"
BootstrapPath(directory) == <<directory, "bootstrap">>

\* What `nydus-image inspect --request blobs` prints for a bootstrap file: the
\* blob ids the file lists.
FileBlobs(file) == file.blobs

\* read_from_dir when inspect exits 0: the descriptor, or the exception.
read_from_dir(fsys, directory, backend) ==
    IF fsys[directory].bootstrap = Absent
    THEN [raised |-> "FileNotFoundError", image |-> NoImage]
    ELSE LET image_config ==
                 IF fsys[directory].config # Absent
                 THEN from_dict(fsys[directory].config)
                 ELSE NydusImageConfig("amd64", "linux", NoneValue)
             r == get_blob_digests(FileBlobs(fsys[directory].bootstrap)) IN
         IF r.raised # "none"
         THEN [raised |-> r.raised, image |-> NoImage]
         ELSE [raised |-> "none",
               image |-> BoundImage(BootstrapPath(directory), r.digests, backend,
                                    image_config)]

\* A write_to_dir that leaves the bootstrap of the directory as it is.
write_to_dir_KeepsBootstrap(fsys, img, directory) ==
    [fsys EXCEPT ![directory] =
        [bootstrap |-> @.bootstrap, config |-> to_dict(img.image_config)]]

\* write_to_dir: the bootstrap is copied unless it is the target file itself,
\* and config.json is written from to_dict.
write_to_dir(fsys, img, directory) ==
    [fsys EXCEPT ![directory] =
        [bootstrap |-> IF img.bootstrap_local_path # BootstrapPath(directory)
                       THEN fsys[img.bootstrap_local_path[1]].bootstrap
                       ELSE @.bootstrap,
         config |-> to_dict(img.image_config)]]

RtFrame == UNCHANGED <<copyVars, changeVars, parseVars, heapVars, loadVars, cmd,
                       saveVars, repackVars>>

\* read_from_dir(D, B): the bootstrap is missing, inspect exits non-zero, or
\* the result of read_from_dir.
RtReadFirst ==
    /\ rt.pc = "read"
    /\ \E returncode \in {0, 1} :
          LET r == read_from_dir(fs, rt.D, rt.backend) IN
          IF returncode # 0 /\ fs[rt.D].bootstrap # Absent
          THEN rt' = [rt EXCEPT !.pc = "raised", !.error = "CalledProcessError"]
          ELSE IF r.raised # "none"
          THEN rt' = [rt EXCEPT !.pc = "raised", !.error = r.raised]
          ELSE rt' = [rt EXCEPT !.pc = "write", !.first = r.image]
    /\ UNCHANGED fs
    /\ RtFrame

\* write_to_dir(image, D2)
RtWriteToDir ==
    /\ rt.pc = "write"
    /\ fs' = write_to_dir(fs, rt.first, rt.D2)
    /\ rt' = [rt EXCEPT !.pc = "read_again"]
    /\ RtFrame

\* read_from_dir(D2, B)
RtReadSecond ==
    /\ rt.pc = "read_again"
    /\ \E returncode \in {0, 1} :
          LET r == read_from_dir(fs, rt.D2, rt.backend) IN
          IF returncode # 0 /\ fs[rt.D2].bootstrap # Absent
          THEN rt' = [rt EXCEPT !.pc = "raised_again", !.error = "CalledProcessError"]
          ELSE IF r.raised # "none"
          THEN rt' = [rt EXCEPT !.pc = "raised_again", !.error = r.raised]
          ELSE rt' = [rt EXCEPT !.pc = "done", !.second = r.image]
    /\ UNCHANGED fs
    /\ RtFrame

\* -------------------------------------------------------------- main.py
\* A dict after `config[canonical] = config.pop(alias)`, when it has the alias.
PopAlias(config, alias, canonical) ==
    IF alias \in DOMAIN config
    THEN [k \in (DOMAIN config \ {alias}) \cup {canonical} |->
             IF k = canonical THEN config[alias] ELSE config[k]]
    ELSE config

ExpectedKeys == {"endpoint", "bucket", "region", "object_prefix", "access_key", "secret_key"}
\* The fields of NydusS3Backend that have no default.
RequiredKeys == {"endpoint", "bucket", "region", "access_key", "secret_key"}

NoBackend == [none |-> TRUE]

\* A NydusS3Backend dataclass with no default for endpoint and region either:
\* a field the config leaves out is filled in.
S3FromConfig_Lenient(config) ==
    LET get(k) == IF k \in DOMAIN config THEN config[k] ELSE "" IN
    [raised |-> "none",
     backend |-> NydusS3Backend(get("endpoint"), get("bucket"), get("region"),
                                get("access_key"), get("secret_key"),
                                config["object_prefix"])]

\* NydusS3Backend(**filtered_config): TypeError when a field without a default
\* is missing.
S3FromConfig(config) ==
    IF RequiredKeys \subseteq DOMAIN config
    THEN [raised |-> "none",
          backend |-> NydusS3Backend(config["endpoint"], config["bucket"],
                                     config["region"], config["access_key"],
                                     config["secret_key"], config["object_prefix"])]
    ELSE [raised |-> "TypeError", backend |-> NoBackend]

\* BackendArguments.parse_arguments on the type string, the config string and,
\* for s3, the JSON object in the file the config string names.
parse_arguments(backend_type, backend_config, json) ==
    IF backend_type = "s3"
    THEN LET c1 == PopAlias(json, "bucket_name", "bucket")
             c2 == PopAlias(c1, "access_key_id", "access_key")
             c3 == PopAlias(c2, "access_key_secret", "secret_key")
             excess_keys == DOMAIN c3 \ ExpectedKeys
             c4 == IF "object_prefix" \in DOMAIN c3 THEN c3
                   ELSE [k \in DOMAIN c3 \cup {"object_prefix"} |->
                            IF k = "object_prefix" THEN "nydus/" ELSE c3[k]]
             filtered_config == [k \in DOMAIN c4 \cap ExpectedKeys |-> c4[k]]
             r == S3FromConfig(filtered_config) IN
         [pc |-> "ended", raised |-> r.raised, backend |-> r.backend,
          warnings |-> IF excess_keys # {} THEN <<excess_keys>> ELSE <<>>]
    ELSE IF backend_type = "localfs"
    THEN [pc |-> "ended", raised |-> "none",
          backend |-> NydusLocalFilesystemBackend(backend_config), warnings |-> <<>>]
    ELSE [pc |-> "ended", raised |-> "ValueError", backend |-> NoBackend,
          warnings |-> <<>>]

\* parse_arguments is called.
ParseArguments ==
    /\ parsed.pc = "none"
    /\ parsed' = parse_arguments(args.backend_type, args.backend_config, args.json)
    /\ UNCHANGED args
    /\ UNCHANGED <<copyVars, changeVars, dirVars, heapVars, loadVars, cmd, saveVars,
                   repackVars>>

CmdFrame == UNCHANGED <<source_image, i, err, calls, store, returned, log, changeVars, dirVars,
                        parseVars, heapVars,
                        loadVars, repackVars>>

\* A run that carries on to save the target whether or not copy_blobs raised.
CopyFinished_Swallowed == pc \in {"done", "error"}

\* CopyCommand.run reaches "Save target image" when copy_blobs has returned.
CopyFinished == pc = "done"

\* run, lines 102-114: the loader raised; the temporary directory is removed.
CmdLoadRaised ==
    /\ cmd.pc = "loading"
    /\ load.pc = "raised"
    /\ cmd' = [cmd EXCEPT !.pc = "failed", !.temp_dir = "deleted"]
    /\ UNCHANGED <<target_image, pc, runs, saveVars>>
    /\ CmdFrame

\* run, lines 117-121: the target descriptor is derived and copy_blobs is called.
CmdChangeBackends ==
    /\ cmd.pc = "loading"
    /\ load.pc = "returned"
    /\ target_image' = change_backends(source_image, cmd.target_backend)
    /\ pc' = "idle"
    /\ runs' = 1
    /\ cmd' = [cmd EXCEPT !.pc = "copying"]
    /\ UNCHANGED saveVars
    /\ CmdFrame

\* A run whose temporary directory outlives a failed copy.
CmdCopyRaised_Leaks ==
    /\ cmd.pc = "copying"
    /\ pc = "error"
    /\ ~CopyFinished
    /\ cmd' = [cmd EXCEPT !.pc = "failed"]
    /\ UNCHANGED <<target_image, pc, runs, saveVars>>
    /\ CmdFrame

\* run, line 121: copy_blobs raised.
CmdCopyRaised ==
    /\ cmd.pc = "copying"
    /\ pc = "error"
    /\ ~CopyFinished
    /\ cmd' = [cmd EXCEPT !.pc = "failed", !.temp_dir = "deleted"]
    /\ UNCHANGED <<target_image, pc, runs, saveVars>>
    /\ CmdFrame

\* run, lines 124-126: upload_bootstrap_and_manifest is called.
CmdUpload ==
    /\ cmd.pc = "copying"
    /\ CopyFinished
    /\ cmd.target_kind = "reference"
    /\ cmd' = [cmd EXCEPT !.pc = "saving"]
    /\ up' = [up EXCEPT !.pc = "blob_put"]
    /\ UNCHANGED <<target_image, pc, runs, saved>>
    /\ CmdFrame

\* run, lines 127-129 and write_to_dir: bootstrap and config.json are written.
CmdWriteToDir ==
    /\ cmd.pc = "copying"
    /\ CopyFinished
    /\ cmd.target_kind = "dir"
    /\ saved' = [saved EXCEPT
                    !.dir = [bootstrap |-> target_image.bootstrap_local_path,
                             config |-> to_dict(target_image.image_config)],
                    !.image = target_image]
    /\ cmd' = [cmd EXCEPT !.pc = "finished", !.temp_dir = "deleted"]
    /\ UNCHANGED <<target_image, pc, runs, up>>
    /\ CmdFrame

\* run, line 133: upload returned.
CmdUploadReturned ==
    /\ cmd.pc = "saving"
    /\ up.pc = "returned"
    /\ cmd' = [cmd EXCEPT !.pc = "finished", !.temp_dir = "deleted"]
    /\ UNCHANGED <<target_image, pc, runs, saveVars>>
    /\ CmdFrame

\* run, line 126: upload raised.
CmdUploadRaised ==
    /\ cmd.pc = "saving"
    /\ up.pc = "raised"
    /\ cmd' = [cmd EXCEPT !.pc = "failed", !.temp_dir = "deleted"]
    /\ UNCHANGED <<target_image, pc, runs, saveVars>>
    /\ CmdFrame

\* ---------------------------------------------------- copier.py helpers
\* Where a backend keeps its blobs; credentials do not change the place.
Location(backend) ==
    IF backend.kind = "s3"
    THEN <<"s3", backend.endpoint, backend.bucket, backend.object_prefix>>
    ELSE IF backend.kind = "localfs"
    THEN <<"localfs", backend.blob_dir>>
    ELSE <<"unknown">>

Holds(st, backend, digest) == <<Location(backend), digest>> \in st

KnownKind(backend) == backend.kind \in {"s3", "localfs"}

\* A str.upper() under which both config names give the same prefix.
Upper_OnePrefix == [source |-> "REMOTE", target |-> "REMOTE"]

\* str.upper() on the config names copy_blob uses.
Upper == [source |-> "SOURCE", target |-> "TARGET"]

\* str.lower() on the same names.
Lower == [source |-> "source", target |-> "target"]

RcloneConfig(backend, name) == [backend |-> backend, name |-> name]

\* A with_digest that leaves the digest out of the object key.
with_digest_NoDigest(config, digest) ==
    IF config.backend.kind = "s3"
    THEN [remote |-> config.name, bucket |-> config.backend.bucket,
          key |-> <<config.backend.object_prefix>>]
    ELSE IF config.backend.kind = "localfs"
    THEN [dir |-> config.backend.blob_dir]
    ELSE [raise |-> "ValueError"]

\* RcloneConfig.with_digest: the rclone CLI address of one side.
with_digest(config, digest) ==
    IF config.backend.kind = "s3"
    THEN [remote |-> config.name, bucket |-> config.backend.bucket,
          key |-> <<config.backend.object_prefix, digest>>]
    ELSE IF config.backend.kind = "localfs"
    THEN [dir |-> config.backend.blob_dir]
    ELSE [raise |-> "ValueError"]

\* RcloneConfig.env: the environment variables of one side.
env(config) ==
    IF config.backend.kind = "s3"
    THEN LET env_prefix == <<"RCLONE_CONFIG", Upper[config.name]>> IN
         {<<env_prefix \o <<"TYPE">>, "s3">>,
          <<env_prefix \o <<"ACCESS_KEY_ID">>, config.backend.access_key>>,
          <<env_prefix \o <<"SECRET_ACCESS_KEY">>, config.backend.secret_key>>,
          <<env_prefix \o <<"ENDPOINT">>, config.backend.endpoint>>,
          <<env_prefix \o <<"REGION">>, config.backend.region>>}
    ELSE {}

\* {**a, **b}: the entries of b, and those of a whose key b does not set.
MergeEnv(a, b) == b \cup {e \in a : \A f \in b : f[1] # e[1]}

Min(a, b) == IF a <= b THEN a ELSE b

\* A copy_blobs that forgets the layer count check: zip() then drops the tail.
PreconditionError_NoCount(source, target) ==
    IF source.bootstrap_local_path # target.bootstrap_local_path
    THEN "ValueError: bootstrap"
    ELSE IF \E k \in 1..Min(Len(source.layers), Len(target.layers)) :
                source.layers[k].digest # target.layers[k].digest
    THEN "ValueError: digest"
    ELSE "none"

\* The first precondition of copy_blobs that fails, or "none".
PreconditionError(source, target) ==
    IF source.bootstrap_local_path # target.bootstrap_local_path
    THEN "ValueError: bootstrap"
    ELSE IF Len(source.layers) # Len(target.layers)
    THEN "ValueError: layer count"
    ELSE IF \E k \in 1..Min(Len(source.layers), Len(target.layers)) :
                source.layers[k].digest # target.layers[k].digest
    THEN "ValueError: digest"
    ELSE "none"

\* A copy_blob whose comparison is inverted.
SameBackend_Inverted(source_blob, target_blob) ==
    source_blob.backend # target_blob.backend

\* A copy_blob that skips when both backends name the same place, whatever
\* the keys.
SameBackend_SameLocation(source_blob, target_blob) ==
    Location(source_blob.backend) = Location(target_blob.backend)

\* copy_blob's decision to skip the transport.
SameBackend(source_blob, target_blob) ==
    source_blob.backend = target_blob.backend

\* str() of a backend in an f-string: the dataclass repr, every field shown.
Repr(backend) ==
    IF backend.kind = "s3"
    THEN <<"NydusS3Backend", backend.endpoint, backend.bucket, backend.region,
           backend.access_key, backend.secret_key, backend.object_prefix>>
    ELSE IF backend.kind = "localfs"
    THEN <<"NydusLocalFilesystemBackend", backend.blob_dir>>
    ELSE <<backend.kind>>

\* The pieces of an rclone address as they appear in its string.
PathParts(path) ==
    IF "key" \in DOMAIN path THEN <<path.remote, path.bucket>> \o path.key
    ELSE <<path.dir>>

\* One logging call: its level, its message and the values formatted into it.
LogRecord(level, msg, fmt_args) == [level |-> level, msg |-> msg, args |-> fmt_args]

\* copy_blob, line 23.
LogCopying(source_blob, target_blob) ==
    LogRecord("INFO", "copying blob from {} to {}: {}",
              Repr(source_blob.backend) \o Repr(target_blob.backend)
                  \o <<source_blob.digest>>)

\* rclone_copy, line 84.
LogRunning(source_blob, target_blob) ==
    LogRecord("INFO", "Running rclone copy from {} to {}",
              PathParts(with_digest(RcloneConfig(source_blob.backend, "source"),
                                    source_blob.digest))
                  \o PathParts(with_digest(RcloneConfig(target_blob.backend, "target"),
                                           target_blob.digest)))

\* rclone_copy, lines 92-94: the exit code and what rclone itself printed.
LogFailed(returncode) ==
    <<LogRecord("ERROR", "rclone copy failed with exit code {}", <<"1">>),
      LogRecord("ERROR", "rclone stdout: {}", <<"<rclone stdout>">>),
      LogRecord("ERROR", "rclone stderr: {}", <<"<rclone stderr>">>)>>

\* What one subprocess.run of rclone is given.
RcloneCall(digest, source_config, target_config, returncode) ==
    [run |-> runs, index |-> i, digest |-> digest,
     source_name |-> source_config.name, target_name |-> target_config.name,
     source_path |-> with_digest(source_config, digest),
     target_path |-> with_digest(target_config, digest),
     env |-> MergeEnv(env(source_config), env(target_config)),
     returncode |-> returncode]

\* The effect of a successful `rclone copy` on the storage locations.
Transported(st, digest, source_backend, target_backend) ==
    IF Holds(st, source_backend, digest)
    THEN st \cup {<<Location(target_backend), digest>>}
    ELSE st

\* zip(source_image.layers, target_image.layers): the number of pairs.
ZipLen == Min(Len(source_image.layers), Len(target_image.layers))

\* A loop that stops one pair early.
AfterBlob_OffByOne == IF i + 1 >= ZipLen THEN "done" ELSE "loop"

\* The for loop of copy_blobs after the pair at i: the next pair, or the end.
AfterBlob == IF i + 1 > ZipLen THEN "done" ELSE "loop"

\* ------------------------------------------------------ copy_blobs steps
\* copy_blobs, lines 11-16: the three preconditions, checked before the loop.
CopyBlobsEnter ==
    /\ pc = "idle"
    /\ LET e == PreconditionError(source_image, target_image) IN
       /\ err' = e
       /\ pc' = IF e # "none" THEN "error"
                ELSE IF ZipLen = 0 THEN "done" ELSE "loop"
    /\ i' = 1
    /\ UNCHANGED <<source_image, target_image, calls, store, runs, returned, log>>
    /\ UNCHANGED nonCopyVars

\* copy_blob, lines 27-29: equal backends, nothing is run.
CopyBlobSkip ==
    /\ pc = "loop"
    /\ SameBackend(source_image.layers[i], target_image.layers[i])
    /\ log' = log \o <<LogCopying(source_image.layers[i], target_image.layers[i]),
                       LogRecord("INFO", "Source and target backend are the same, skipping", <<>>)>>
    /\ i' = i + 1
    /\ pc' = AfterBlob
    /\ UNCHANGED <<source_image, target_image, err, calls, store, runs, returned>>
    /\ UNCHANGED nonCopyVars

\* copy_blob -> rclone_copy, rclone exits 0.
CopyBlobRcloneOk ==
    /\ pc = "loop"
    /\ LET s == source_image.layers[i]
           t == target_image.layers[i] IN
       /\ ~SameBackend(s, t)
       /\ KnownKind(s.backend) /\ KnownKind(t.backend)
       /\ calls' = Append(calls, RcloneCall(s.digest, RcloneConfig(s.backend, "source"),
                                            RcloneConfig(t.backend, "target"), 0))
       /\ store' = Transported(store, s.digest, s.backend, t.backend)
       /\ log' = log \o <<LogCopying(s, t), LogRunning(s, t),
                          LogRecord("INFO", "rclone copy completed successfully", <<>>)>>
    /\ i' = i + 1
    /\ pc' = AfterBlob
    /\ UNCHANGED <<source_image, target_image, err, runs, returned>>
    /\ UNCHANGED nonCopyVars

\* An rclone_copy that logs the failure and does not re-raise it.
CopyBlobRcloneFail_Swallow ==
    /\ pc = "loop"
    /\ LET s == source_image.layers[i]
           t == target_image.layers[i] IN
       /\ ~SameBackend(s, t)
       /\ KnownKind(s.backend) /\ KnownKind(t.backend)
       /\ calls' = Append(calls, RcloneCall(s.digest, RcloneConfig(s.backend, "source"),
                                            RcloneConfig(t.backend, "target"), 1))
       /\ log' = log \o <<LogCopying(s, t), LogRunning(s, t)>> \o LogFailed(1)
    /\ i' = i + 1
    /\ pc' = AfterBlob
    /\ UNCHANGED <<source_image, target_image, err, store, runs, returned>>
    /\ UNCHANGED nonCopyVars

\* copy_blob -> rclone_copy, rclone exits non-zero: CalledProcessError is re-raised.
CopyBlobRcloneFail ==
    /\ pc = "loop"
    /\ LET s == source_image.layers[i]
           t == target_image.layers[i] IN
       /\ ~SameBackend(s, t)
       /\ KnownKind(s.backend) /\ KnownKind(t.backend)
       /\ calls' = Append(calls, RcloneCall(s.digest, RcloneConfig(s.backend, "source"),
                                            RcloneConfig(t.backend, "target"), 1))
       /\ log' = log \o <<LogCopying(s, t), LogRunning(s, t)>> \o LogFailed(1)
    /\ pc' = "error"
    /\ err' = "CalledProcessError"
    /\ UNCHANGED <<source_image, target_image, i, store, runs, returned>>
    /\ UNCHANGED nonCopyVars

\* copy_blob -> rclone_copy, line 80: env() of a backend that is neither class
\* raises ValueError before rclone is run.
CopyBlobUnknownKind ==
    /\ pc = "loop"
    /\ LET s == source_image.layers[i]
           t == target_image.layers[i] IN
       /\ ~SameBackend(s, t)
       /\ ~(KnownKind(s.backend) /\ KnownKind(t.backend))
       /\ log' = Append(log, LogCopying(s, t))
    /\ pc' = "error"
    /\ err' = "ValueError: unknown backend type"
    /\ UNCHANGED <<source_image, target_image, i, calls, store, runs, returned>>
    /\ UNCHANGED nonCopyVars

\* The caller runs the whole orchestration again on the same descriptors.
CopyBlobsAgain ==
    /\ pc \in {"done", "error"}
    /\ runs < MaxRuns
    /\ runs' = runs + 1
    /\ returned' = Append(returned, pc)
    /\ pc' = "idle"
    /\ i' = 1
    /\ err' = "none"
    /\ UNCHANGED <<source_image, target_image, calls, store, log>>
    /\ UNCHANGED nonCopyVars

\* ------------------------------------------------------------ repacker.py
TempDir == "/tmp/repack"
UnpackTar == "/tmp/repack/unpacked.tar"
RepackBootstrap == "/tmp/repack/repack/bootstrap"
RepackBlobs == "/tmp/repack/repack/blobs"
LocalBlobs == "/tmp/repack/local_blobs"
RepackDir == "/tmp/repack/repack"

RpFrame == UNCHANGED <<changeVars, dirVars, parseVars, heapVars, loadVars, cmd, saveVars>>

RpRaise(e) == rp' = [rp EXCEPT !.pc = "raised", !.error = e]

\* repack_image, line 96: the test that takes the "already local" branch.
SourceIsLocal(img) ==
    /\ Len(img.layers) > 0
    /\ img.layers[1].backend.kind = "localfs"

\* repack_image, lines 95-122: the source blobs are used where they are, or
\* copy_blobs is called to pull them into a fresh local directory.
RpLocalize ==
    /\ rp.pc = "localize"
    /\ IF SourceIsLocal(source_image)
       THEN /\ rp' = [rp EXCEPT !.pc = "unpack",
                                !.scratch = {RepackDir},
                                !.local_blob_dir = source_image.layers[1].backend.blob_dir,
                                !.trace = Append(rp.trace, "LOCALIZE_SOURCE")]
            /\ UNCHANGED <<target_image, pc, runs>>
       ELSE /\ rp' = [rp EXCEPT !.pc = "copying", !.local_blob_dir = LocalBlobs,
                                !.scratch = {RepackDir, LocalBlobs},
                                !.trace = Append(rp.trace, "LOCALIZE_SOURCE")]
            /\ target_image' =
                  NydusImageWithBackends(
                      source_image.bootstrap_local_path,
                      [k \in 1..Len(source_image.layers) |->
                          NydusBlobLocation(source_image.layers[k].digest,
                                            NydusLocalFilesystemBackend(LocalBlobs))],
                      source_image.image_config)
            /\ pc' = "idle"
            /\ runs' = 1
    /\ UNCHANGED <<source_image, i, err, calls, store, returned, log, tools>>
    /\ RpFrame

\* repack_image, line 122: copy_blobs returned.
RpCopied ==
    /\ rp.pc = "copying"
    /\ pc = "done"
    /\ rp' = [rp EXCEPT !.pc = "unpack"]
    /\ UNCHANGED <<copyVars, tools>>
    /\ RpFrame

\* repack_image, line 122: copy_blobs raised.
RpCopyRaised ==
    /\ rp.pc = "copying"
    /\ pc = "error"
    /\ RpRaise(err)
    /\ UNCHANGED <<copyVars, tools>>
    /\ RpFrame

UnpackCall(returncode) ==
    [tool |-> "unpack", bootstrap |-> source_image.bootstrap_local_path,
     blob_dir |-> rp.local_blob_dir, output |-> UnpackTar, returncode |-> returncode]

\* An unpack_nydus_image that does not look at the return code.
RpUnpackFail_Swallowed ==
    /\ rp.pc = "unpack"
    /\ rp' = [rp EXCEPT !.pc = "create", !.trace = Append(rp.trace, "UNPACK")]
    /\ tools' = Append(tools, UnpackCall(1))
    /\ UNCHANGED copyVars
    /\ RpFrame

\* unpack_nydus_image: `nydus-image unpack` exits non-zero, RuntimeError.
RpUnpackFail ==
    /\ rp.pc = "unpack"
    /\ rp' = [rp EXCEPT !.pc = "raised", !.error = "RuntimeError",
                        !.trace = Append(rp.trace, "UNPACK")]
    /\ tools' = Append(tools, UnpackCall(1))
    /\ UNCHANGED copyVars
    /\ RpFrame

\* unpack_nydus_image: `nydus-image unpack` exits 0.
RpUnpackOk ==
    /\ rp.pc = "unpack"
    /\ rp' = [rp EXCEPT !.pc = "create", !.trace = Append(rp.trace, "UNPACK"),
                        !.scratch = rp.scratch \cup {UnpackTar}]
    /\ tools' = Append(tools, UnpackCall(0))
    /\ UNCHANGED copyVars
    /\ RpFrame

\* repack_image, lines 131-136, and repack_nydus_image, lines 43-48: where
\* `nydus-image create` writes the new blobs.
CreateBlobDir_Scratch(target_backend) == RepackBlobs

CreateBlobDir(target_backend) ==
    IF target_backend.kind = "localfs" THEN target_backend.blob_dir ELSE RepackBlobs

CreateCall(returncode) ==
    [tool |-> "create", bootstrap |-> RepackBootstrap,
     blob_dir |-> CreateBlobDir(rp.target_backend), tar |-> UnpackTar,
     returncode |-> returncode]

\* repack_nydus_image: `nydus-image create` exits non-zero, CalledProcessError.
RpCreateFail ==
    /\ rp.pc = "create"
    /\ rp' = [rp EXCEPT !.pc = "raised", !.error = "CalledProcessError",
                        !.trace = Append(rp.trace, "REPACK")]
    /\ tools' = Append(tools, CreateCall(1))
    /\ UNCHANGED copyVars
    /\ RpFrame

\* repack_nydus_image: `nydus-image create` exits 0, having written a new
\* bootstrap and its blobs.
RpCreateOk ==
    /\ rp.pc = "create"
    /\ \E created \in SeqsUpTo(CreatedBlobIds, MaxLayers) :
          /\ rp' = [rp EXCEPT !.pc = "inspect", !.created = created,
                              !.scratch = rp.scratch \cup {RepackBootstrap}
                                  \cup ({CreateBlobDir(rp.target_backend)}
                                            \cap {RepackBlobs}),
                              !.new_bootstrap_path = RepackBootstrap,
                              !.actual_blob_dir = CreateBlobDir(rp.target_backend),
                              !.trace = Append(rp.trace, "REPACK")]
          /\ store' = store \cup
                {<<Location(NydusLocalFilesystemBackend(CreateBlobDir(rp.target_backend))),
                   created[k]>> : k \in 1..Len(created)}
    /\ tools' = Append(tools, CreateCall(0))
    /\ UNCHANGED <<source_image, target_image, pc, i, err, calls, runs, returned, log>>
    /\ RpFrame

InspectCall(returncode) ==
    [tool |-> "inspect", bootstrap |-> rp.new_bootstrap_path, returncode |-> returncode]

\* get_blob_digests on the new bootstrap: `nydus-image inspect` exits non-zero.
RpInspectFail ==
    /\ rp.pc = "inspect"
    /\ rp' = [rp EXCEPT !.pc = "raised", !.error = "CalledProcessError",
                        !.trace = Append(rp.trace, "DERIVE_TARGET_LAYERS")]
    /\ tools' = Append(tools, InspectCall(1))
    /\ UNCHANGED copyVars
    /\ RpFrame

\* A repack_image whose temp source always names the scratch blob directory.
RpInspectOk_ScratchDir ==
    /\ rp.pc = "inspect"
    /\ LET r == get_blob_digests(rp.created) IN
       IF r.raised # "none"
       THEN rp' = [rp EXCEPT !.pc = "raised", !.error = r.raised,
                             !.trace = Append(rp.trace, "DERIVE_TARGET_LAYERS")]
       ELSE rp' = [rp EXCEPT
                     !.pc = "returned",
                     !.trace = rp.trace \o <<"DERIVE_TARGET_LAYERS", "DONE">>,
                     !.repacked_image =
                         BoundImage(rp.new_bootstrap_path, r.digests, rp.target_backend,
                                    source_image.image_config),
                     !.temp_source_image =
                         BoundImage(rp.new_bootstrap_path, r.digests,
                                    NydusLocalFilesystemBackend(RepackBlobs),
                                    source_image.image_config)]
    /\ tools' = Append(tools, InspectCall(0))
    /\ UNCHANGED copyVars
    /\ RpFrame

\* A repack_image that takes the source's digests for the new image's.
RpInspectOk_SourceDigests ==
    /\ rp.pc = "inspect"
    /\ LET r == get_blob_digests(rp.created)
           old == [k \in 1..Len(source_image.layers) |-> source_image.layers[k].digest] IN
       IF r.raised # "none"
       THEN rp' = [rp EXCEPT !.pc = "raised", !.error = r.raised,
                             !.trace = Append(rp.trace, "DERIVE_TARGET_LAYERS")]
       ELSE rp' = [rp EXCEPT
                     !.pc = "returned",
                     !.trace = rp.trace \o <<"DERIVE_TARGET_LAYERS", "DONE">>,
                     !.repacked_image =
                         BoundImage(rp.new_bootstrap_path, old, rp.target_backend,
                                    source_image.image_config),
                     !.temp_source_image =
                         BoundImage(rp.new_bootstrap_path, old,
                                    NydusLocalFilesystemBackend(rp.actual_blob_dir),
                                    source_image.image_config)]
    /\ tools' = Append(tools, InspectCall(0))
    /\ UNCHANGED copyVars
    /\ RpFrame

\* repack_image, lines 142-175: the new digests are read and checked, and the
\* two descriptors are built and returned.
RpInspectOk ==
    /\ rp.pc = "inspect"
    /\ LET r == get_blob_digests(rp.created) IN
       IF r.raised # "none"
       THEN rp' = [rp EXCEPT !.pc = "raised", !.error = r.raised,
                             !.trace = Append(rp.trace, "DERIVE_TARGET_LAYERS")]
       ELSE rp' = [rp EXCEPT
                     !.pc = "returned",
                     !.trace = rp.trace \o <<"DERIVE_TARGET_LAYERS", "DONE">>,
                     !.repacked_image =
                         BoundImage(rp.new_bootstrap_path, r.digests, rp.target_backend,
                                    source_image.image_config),
                     !.temp_source_image =
                         BoundImage(rp.new_bootstrap_path, r.digests,
                                    NydusLocalFilesystemBackend(rp.actual_blob_dir),
                                    source_image.image_config)]
    /\ tools' = Append(tools, InspectCall(0))
    /\ UNCHANGED copyVars
    /\ RpFrame

\* The use repack_image's result is made for (line 160): the caller hands the
\* returned pair to copy_blobs, temp source first.
RpThenCopy ==
    /\ rp.pc = "returned"
    /\ rp' = [rp EXCEPT !.pc = "then_copy", !.repack_source = source_image]
    /\ source_image' = rp.temp_source_image
    /\ target_image' = rp.repacked_image
    /\ pc' = "idle"
    /\ i' = 1
    /\ err' = "none"
    /\ runs' = runs + 1
    /\ returned' = IF pc = "none" THEN returned ELSE Append(returned, pc)
    /\ UNCHANGED <<calls, store, log, tools>>
    /\ RpFrame

\* The operation that called repack_image ends, after copy_blobs when it got
\* that far: the temporary directory it made for the call is released.
RpCallerExit ==
    /\ \/ rp.pc \in {"returned", "raised"}
       \/ rp.pc = "then_copy" /\ pc \in {"done", "error"}
    /\ rp' = [rp EXCEPT !.pc = "exited", !.temp_dir = "deleted", !.scratch = {}]
    /\ UNCHANGED <<copyVars, tools>>
    /\ RpFrame

\* -------------------------------------------------------- initial values
NoWorld == [none |-> TRUE]
NoLoad == [pc |-> "none", gets |-> <<>>, invocations |-> <<>>, error |-> "none",
           bootstrap |-> Missing, config |-> Absent, temp_files |-> {}]
NoCmd == [pc |-> "none"]
NoUp == [pc |-> "none", puts |-> <<>>, bootstrap_digest |-> Missing,
         config_digest |-> Missing, temp_files |-> {}]
NothingSaved == [blobs |-> {}, manifest |-> Absent, dir |-> Absent, image |-> NoImage]
NoRepack == [pc |-> "none"]
NoFs == [none |-> TRUE]
NoArgs == [none |-> TRUE]
NotParsed == [pc |-> "none"]
NoHeap == [none |-> TRUE]
NoRoundTrip == [pc |-> "none"]

Worlds ==
    [manifest : Manifests \cup {Absent},
     config_blob : ConfigDicts,
     boot_in_tar : BOOLEAN,
     inspect_blobs : SeqsUpTo(BlobIds, MaxLayers),
     dir_bootstrap : BOOLEAN,
     dir_config : ConfigDicts \cup {Absent}]

CopyCmd(source_kind, target_kind, source_backend, target_backend) ==
    [pc |-> "loading", source_kind |-> source_kind, target_kind |-> target_kind,
     source_backend |-> source_backend, target_backend |-> target_backend,
     temp_dir |-> "exists"]

\* ------------------------------------------- specification of copy_blobs
\* The blobs a descriptor says exist: each layer's digest at its backend.
BlobsOf(img) ==
    {<<Location(img.layers[k].backend), img.layers[k].digest>> :
        k \in 1..Len(img.layers)}

InitCopy ==
    /\ source_image \in {NydusImageWithBackends("/img/bootstrap", l, DefaultConfig) :
                            l \in SourceLayerLists}
    /\ target_image \in {NydusImageWithBackends(b, l, DefaultConfig) :
                            b \in Bootstraps, l \in LayerLists}
    /\ pc = "idle"
    /\ i = 1
    /\ err = "none"
    /\ calls = <<>>
    /\ log = <<>>
    /\ store = BlobsOf(source_image)
    /\ runs = 1
    /\ returned = <<>>
    /\ image = NoImage
    /\ new_backend = LocalA
    /\ new_image = NoImage
    /\ world = NoWorld
    /\ load = NoLoad
    /\ cmd = NoCmd
    /\ up = NoUp
    /\ saved = NothingSaved
    /\ rp = NoRepack
    /\ tools = <<>>
    /\ fs = NoFs
    /\ rt = NoRoundTrip
    /\ args = NoArgs
    /\ parsed = NotParsed
    /\ heap = NoHeap

NextCopy ==
    \/ CopyBlobsEnter
    \/ CopyBlobSkip
    \/ CopyBlobRcloneOk
    \/ CopyBlobRcloneFail
    \/ CopyBlobsAgain

SpecCopy == InitCopy /\ [][NextCopy]_vars

\* ------------------- specification of copy_blobs over every kind of backend
KindBackends == {S3A, LocalA, OtherBackend}

InitKinds ==
    /\ source_image \in
          {NydusImageWithBackends("/img/bootstrap", l, DefaultConfig) :
              l \in SeqsUpTo({NydusBlobLocation(d, b) :
                                 d \in Digests, b \in {S3A, OtherBackend}}, MaxLayers)}
    /\ target_image \in
          {NydusImageWithBackends(b, l, DefaultConfig) :
              b \in Bootstraps,
              l \in SeqsUpTo({NydusBlobLocation(d, k) :
                                 d \in Digests, k \in KindBackends}, MaxLayers)}
    /\ pc = "idle"
    /\ i = 1
    /\ err = "none"
    /\ calls = <<>>
    /\ log = <<>>
    /\ store = BlobsOf(source_image)
    /\ runs = 1
    /\ returned = <<>>
    /\ image = NoImage
    /\ new_backend = LocalA
    /\ new_image = NoImage
    /\ world = NoWorld
    /\ load = NoLoad
    /\ cmd = NoCmd
    /\ up = NoUp
    /\ saved = NothingSaved
    /\ rp = NoRepack
    /\ tools = <<>>
    /\ fs = NoFs
    /\ rt = NoRoundTrip
    /\ args = NoArgs
    /\ parsed = NotParsed
    /\ heap = NoHeap

NextKinds ==
    \/ CopyBlobsEnter
    \/ CopyBlobSkip
    \/ CopyBlobRcloneOk
    \/ CopyBlobRcloneFail
    \/ CopyBlobUnknownKind

SpecKinds == InitKinds /\ [][NextKinds]_vars

\* ------------- specification of copy_blobs over backends that differ in keys
\* S3A with another access key, and S3A with another secret key.
S3AOtherKey == NydusS3Backend("https://s3.one", "bucket-a", "eu", "AK2", "SK1", "nydus/")
S3AOtherSecret == NydusS3Backend("https://s3.one", "bucket-a", "eu", "AK1", "SK2", "nydus/")

InitKeys ==
    /\ source_image \in
          {NydusImageWithBackends("/img/bootstrap", l, DefaultConfig) :
              l \in SeqsUpTo({NydusBlobLocation(d, b) :
                                 d \in Digests, b \in {S3A, LocalA}}, MaxLayers)}
    /\ target_image \in
          {NydusImageWithBackends("/img/bootstrap", l, DefaultConfig) :
              l \in SeqsUpTo({NydusBlobLocation(d, b) :
                                 d \in Digests,
                                 b \in {S3A, S3AOtherKey, S3AOtherSecret, LocalA}},
                             MaxLayers)}
    /\ pc = "idle"
    /\ i = 1
    /\ err = "none"
    /\ calls = <<>>
    /\ log = <<>>
    /\ store = BlobsOf(source_image)
    /\ runs = 1
    /\ returned = <<>>
    /\ image = NoImage
    /\ new_backend = LocalA
    /\ new_image = NoImage
    /\ world = NoWorld
    /\ load = NoLoad
    /\ cmd = NoCmd
    /\ up = NoUp
    /\ saved = NothingSaved
    /\ rp = NoRepack
    /\ tools = <<>>
    /\ fs = NoFs
    /\ rt = NoRoundTrip
    /\ args = NoArgs
    /\ parsed = NotParsed
    /\ heap = NoHeap

NextKeys ==
    \/ CopyBlobsEnter
    \/ CopyBlobSkip
    \/ CopyBlobRcloneOk
    \/ CopyBlobRcloneFail

SpecKeys == InitKeys /\ [][NextKeys]_vars

\* --------------------------------------- specification of change_backends
Images ==
    {NydusImageWithBackends(b, l, c) :
        b \in Bootstraps, l \in LayerLists, c \in ImageConfigs}

InitChange ==
    /\ image \in Images
    /\ new_backend \in Backends
    /\ new_image = NoImage
    /\ source_image = NoImage
    /\ target_image = NoImage
    /\ pc = "none"
    /\ i = 1
    /\ err = "none"
    /\ calls = <<>>
    /\ log = <<>>
    /\ store = {}
    /\ runs = 0
    /\ returned = <<>>
    /\ world = NoWorld
    /\ load = NoLoad
    /\ cmd = NoCmd
    /\ up = NoUp
    /\ saved = NothingSaved
    /\ rp = NoRepack
    /\ tools = <<>>
    /\ fs = NoFs
    /\ rt = NoRoundTrip
    /\ args = NoArgs
    /\ parsed = NotParsed
    /\ heap = NoHeap

ChangeBackends ==
    /\ new_image = NoImage
    /\ new_image' = change_backends(image, new_backend)
    /\ UNCHANGED <<image, new_backend>>
    /\ UNCHANGED <<copyVars, dirVars, parseVars, heapVars, loadVars, cmd, saveVars,
                   repackVars>>

NextChange == ChangeBackends

\* ------------------------------- change_backends on objects with identity
\* heap.lists[l] is the list object l, a sequence of references into
\* heap.objs, the NydusBlobLocation objects; a descriptor holds the reference
\* of its layer list.
Descriptor(bootstrap_local_path, layers_ref, image_config) ==
    [bootstrap_local_path |-> bootstrap_local_path, layers |-> layers_ref,
     image_config |-> image_config]

\* The heap holding only the descriptor img.
HeapOf(img) ==
    [pc |-> "start",
     objs |-> img.layers,
     lists |-> <<[k \in 1..Len(img.layers) |-> k]>>,
     source |-> Descriptor(img.bootstrap_local_path, 1, img.image_config),
     result |-> Absent,
     steps |-> 0]

\* The value of a descriptor: its layer list read through the references.
Deref(h, desc) ==
    NydusImageWithBackends(
        desc.bootstrap_local_path,
        [k \in 1..Len(h.lists[desc.layers]) |-> h.objs[h.lists[desc.layers][k]]],
        desc.image_config)

\* A change_backends that rebinds the layers of the list it was given and
\* returns a descriptor holding that same list.
ChangeBackendsObjects_InPlace(h, backend) ==
    LET src == h.lists[h.source.layers] IN
    [h EXCEPT !.pc = "changed",
              !.objs = [o \in 1..Len(h.objs) |->
                           IF \E k \in 1..Len(src) : src[k] = o
                           THEN NydusBlobLocation(h.objs[o].digest, backend)
                           ELSE h.objs[o]],
              !.result = Descriptor(h.source.bootstrap_local_path, h.source.layers,
                                    h.source.image_config)]

\* change_backends: `new_layers = []` is a new list object, each append a new
\* NydusBlobLocation, and the return value a new NydusImageWithBackends.
ChangeBackendsObjects(h, backend) ==
    LET src == h.lists[h.source.layers]
        base == Len(h.objs) IN
    [h EXCEPT !.pc = "changed",
              !.objs = h.objs \o [k \in 1..Len(src) |->
                                     NydusBlobLocation(h.objs[src[k]].digest, backend)],
              !.lists = Append(h.lists, [k \in 1..Len(src) |-> base + k]),
              !.result = Descriptor(h.source.bootstrap_local_path, Len(h.lists) + 1,
                                    h.source.image_config)]

PureFrame == UNCHANGED <<copyVars, image, new_backend, dirVars, parseVars, loadVars,
                         cmd, saveVars, repackVars>>

\* target_image = change_backends(source_image, target_backend)
PureChangeBackends ==
    /\ heap.pc = "start"
    /\ heap' = ChangeBackendsObjects(heap, new_backend)
    /\ new_image' = Deref(heap', heap'.result)
    /\ PureFrame

\* The caller appends a layer to the list of the result.
ResultAppend ==
    /\ heap.pc = "changed"
    /\ heap.steps < MaxMutations
    /\ heap' = [heap EXCEPT
            !.objs = Append(@, NydusBlobLocation("cccccccc", new_backend)),
            !.lists[heap.result.layers] = Append(@, Len(heap.objs) + 1),
            !.steps = @ + 1]
    /\ UNCHANGED new_image
    /\ PureFrame

\* The caller removes the last layer from the list of the result.
ResultPop ==
    /\ heap.pc = "changed"
    /\ heap.steps < MaxMutations
    /\ Len(heap.lists[heap.result.layers]) > 0
    /\ heap' = [heap EXCEPT
            !.lists[heap.result.layers] = SubSeq(@, 1, Len(@) - 1),
            !.steps = @ + 1]
    /\ UNCHANGED new_image
    /\ PureFrame

\* The caller rebinds one layer of the result to another backend.
ResultSetBackend ==
    /\ heap.pc = "changed"
    /\ heap.steps < MaxMutations
    /\ \E k \in 1..Len(heap.lists[heap.result.layers]) :
           heap' = [heap EXCEPT
               !.objs[heap.lists[heap.result.layers][k]].backend = LocalB,
               !.steps = @ + 1]
    /\ UNCHANGED new_image
    /\ PureFrame

InitPure ==
    /\ image \in Images
    /\ new_backend \in {S3B, LocalA}
    /\ new_image = NoImage
    /\ heap = HeapOf(image)
    /\ source_image = NoImage
    /\ target_image = NoImage
    /\ pc = "none"
    /\ i = 1
    /\ err = "none"
    /\ calls = <<>>
    /\ log = <<>>
    /\ store = {}
    /\ runs = 0
    /\ returned = <<>>
    /\ world = NoWorld
    /\ load = NoLoad
    /\ cmd = NoCmd
    /\ up = NoUp
    /\ saved = NothingSaved
    /\ rp = NoRepack
    /\ tools = <<>>
    /\ fs = NoFs
    /\ rt = NoRoundTrip
    /\ args = NoArgs
    /\ parsed = NotParsed

NextPure == PureChangeBackends \/ ResultAppend \/ ResultPop \/ ResultSetBackend

SpecPure == InitPure /\ [][NextPure]_vars

SpecChange == InitChange /\ [][NextChange]_vars

\* --------------------------------------------- specification of download
InitDownload ==
    /\ world \in {w \in Worlds : /\ w.dir_bootstrap /\ w.dir_config = Absent
                                  /\ w.config_blob.architecture = Missing}
    /\ load = [NoLoad EXCEPT !.pc = "manifest_get"]
    /\ cmd = CopyCmd("reference", "dir", S3A, LocalA)
    /\ up = NoUp
    /\ saved = NothingSaved
    /\ rp = NoRepack
    /\ tools = <<>>
    /\ fs = NoFs
    /\ rt = NoRoundTrip
    /\ args = NoArgs
    /\ parsed = NotParsed
    /\ heap = NoHeap
    /\ source_image = NoImage
    /\ target_image = NoImage
    /\ pc = "none"
    /\ i = 1
    /\ err = "none"
    /\ calls = <<>>
    /\ log = <<>>
    /\ store = {}
    /\ runs = 0
    /\ returned = <<>>
    /\ image = NoImage
    /\ new_backend = LocalA
    /\ new_image = NoImage

NextDownload ==
    \/ DlManifestGetFail
    \/ DlManifestGetOk
    \/ DlConfigGetFail
    \/ DlConfigGetOk
    \/ DlLayerGetFail
    \/ DlLayerGetOk
    \/ InspectFail
    \/ InspectOk

SpecDownload == InitDownload /\ [][NextDownload]_vars

\* ----------------------------------------- specification of the copy command
\* A manifest download accepts.
GoodManifest ==
    [schemaVersion |-> 2,
     mediaType |-> OciManifestType,
     config |-> [mediaType |-> OciConfigType, digest |-> "sha256:config"],
     layers |-> <<ManifestLayer(OciLayerType, "sha256:boot", "true", "6")>>]

CmdManifests ==
    {GoodManifest,
     [GoodManifest EXCEPT !.schemaVersion = 1],
     [GoodManifest EXCEPT !.layers = <<>>],
     Absent}

RefWorlds ==
    [manifest : CmdManifests,
     config_blob : ConfigDicts,
     boot_in_tar : BOOLEAN,
     inspect_blobs : SeqsUpTo(BlobIds, MaxLayers),
     dir_bootstrap : {TRUE},
     dir_config : {Absent}]

DirWorlds ==
    [manifest : {Absent},
     config_blob : {[architecture |-> Missing, os |-> Missing, config |-> Missing]},
     boot_in_tar : {TRUE},
     inspect_blobs : SeqsUpTo(BlobIds, MaxLayers),
     dir_bootstrap : BOOLEAN,
     dir_config : ConfigDicts \cup {Absent}]

Range(f) == {f[x] : x \in DOMAIN f}

InitCmd ==
    /\ \E sk \in {"reference", "dir"}, tk \in {"reference", "dir"},
          sb \in Backends, tb \in Backends :
          /\ cmd = CopyCmd(sk, tk, sb, tb)
          /\ world \in IF sk = "reference" THEN RefWorlds ELSE DirWorlds
          /\ load = [NoLoad EXCEPT !.pc = IF sk = "reference" THEN "manifest_get"
                                         ELSE "read_dir"]
          /\ store = {<<Location(sb), d>> : d \in Range(world.inspect_blobs)}
    /\ up = NoUp
    /\ saved = NothingSaved
    /\ rp = NoRepack
    /\ tools = <<>>
    /\ fs = NoFs
    /\ rt = NoRoundTrip
    /\ args = NoArgs
    /\ parsed = NotParsed
    /\ heap = NoHeap
    /\ source_image = NoImage
    /\ target_image = NoImage
    /\ pc = "none"
    /\ i = 1
    /\ err = "none"
    /\ calls = <<>>
    /\ log = <<>>
    /\ runs = 0
    /\ returned = <<>>
    /\ image = NoImage
    /\ new_backend = LocalA
    /\ new_image = NoImage

NextCmd ==
    \/ DlManifestGetFail
    \/ DlManifestGetOk
    \/ DlConfigGetFail
    \/ DlConfigGetOk
    \/ DlLayerGetFail
    \/ DlLayerGetOk
    \/ ReadFromDir
    \/ InspectFail
    \/ InspectOk
    \/ CmdLoadRaised
    \/ CmdChangeBackends
    \/ CopyBlobsEnter
    \/ CopyBlobSkip
    \/ CopyBlobRcloneOk
    \/ CopyBlobRcloneFail
    \/ CmdCopyRaised
    \/ CmdUpload
    \/ CmdWriteToDir
    \/ UpBlobPutOk
    \/ UpBlobPutFail
    \/ UpConfigPutOk
    \/ UpConfigPutFail
    \/ UpManifestPutOk
    \/ UpManifestPutFail
    \/ CmdUploadReturned
    \/ CmdUploadRaised

SpecCmd == InitCmd /\ [][NextCmd]_vars

\* ----------------------------------------- specification of repack_image
RepackCall(target_backend) ==
    [pc |-> "localize", target_backend |-> target_backend, error |-> "none",
     trace |-> <<"START">>, local_blob_dir |-> Missing, created |-> <<>>,
     new_bootstrap_path |-> Missing, actual_blob_dir |-> Missing,
     repacked_image |-> NoImage, temp_source_image |-> NoImage,
     repack_source |-> NoImage, temp_dir |-> "exists", scratch |-> {}]

RepackSourceLayers ==
    SeqsUpTo({NydusBlobLocation(d, b) : d \in Digests, b \in {S3A, LocalA, LocalB}},
             MaxLayers)

InitRepack ==
    /\ source_image \in {NydusImageWithBackends("/img/bootstrap", l, ArmConfig) :
                            l \in RepackSourceLayers}
    /\ rp \in {RepackCall(b) : b \in {S3B, LocalB}}
    /\ tools = <<>>
    /\ fs = NoFs
    /\ rt = NoRoundTrip
    /\ args = NoArgs
    /\ parsed = NotParsed
    /\ heap = NoHeap
    /\ store = BlobsOf(source_image)
    /\ target_image = NoImage
    /\ pc = "none"
    /\ i = 1
    /\ err = "none"
    /\ calls = <<>>
    /\ log = <<>>
    /\ runs = 0
    /\ returned = <<>>
    /\ image = NoImage
    /\ new_backend = LocalA
    /\ new_image = NoImage
    /\ world = NoWorld
    /\ load = NoLoad
    /\ cmd = NoCmd
    /\ up = NoUp
    /\ saved = NothingSaved

\* copy_blob's skip is left out: the copy made here is into the directory
\* repack_image has just created, which no source layer names.
NextRepack ==
    \/ RpLocalize
    \/ CopyBlobsEnter
    \/ CopyBlobRcloneOk
    \/ CopyBlobRcloneFail
    \/ RpCopied
    \/ RpCopyRaised
    \/ RpUnpackOk
    \/ RpUnpackFail
    \/ RpCreateOk
    \/ RpCreateFail
    \/ RpInspectOk
    \/ RpInspectFail

SpecRepack == InitRepack /\ [][NextRepack]_vars

\* ------------- specification of repack_image followed by copy_blobs
NextRepackCopy ==
    \/ NextRepack
    \/ RpThenCopy
    \/ CopyBlobSkip

SpecRepackCopy == InitRepack /\ [][NextRepackCopy]_vars

\* --------------- specification of the top-level operations, to their end
InitScoped == InitCmd \/ InitRepack

NextScoped ==
    \/ NextCmd
    \/ NextRepackCopy
    \/ RpCallerExit

SpecScoped == InitScoped /\ [][NextScoped]_vars

\* ------------------------- specification of the directory round trip
\* The JSON objects a config.json can hold: each key absent, null or set.
JsonConfigs ==
    [architecture : {Missing, NoneValue, "arm64"},
     os : {Missing, "plan9"},
     config : {Missing, NoneValue, "cfg"}]

Directories == {"/src", "/dst"}

DirContents(blob_lists, configs) ==
    [bootstrap : {Absent} \cup {[blobs |-> l] : l \in blob_lists},
     config : {Absent} \cup configs]

InitDir ==
    /\ \E src \in DirContents(SeqsUpTo(BlobIds, MaxLayers), JsonConfigs),
          dst \in DirContents({<<"bbbbbbbb">>},
                              {[architecture |-> "riscv", os |-> "linux",
                                config |-> "old"]}) :
          fs = [dir \in Directories |-> IF dir = "/src" THEN src ELSE dst]
    /\ rt \in [pc : {"read"}, D : {"/src"}, D2 : Directories, backend : {S3A, LocalA},
                first : {NoImage}, second : {NoImage}, error : {"none"}]
    /\ args = NoArgs
    /\ parsed = NotParsed
    /\ heap = NoHeap
    /\ source_image = NoImage
    /\ target_image = NoImage
    /\ pc = "none"
    /\ i = 1
    /\ err = "none"
    /\ calls = <<>>
    /\ log = <<>>
    /\ store = {}
    /\ runs = 0
    /\ returned = <<>>
    /\ image = NoImage
    /\ new_backend = LocalA
    /\ new_image = NoImage
    /\ world = NoWorld
    /\ load = NoLoad
    /\ cmd = NoCmd
    /\ up = NoUp
    /\ saved = NothingSaved
    /\ rp = NoRepack
    /\ tools = <<>>

NextDir ==
    \/ RtReadFirst
    \/ RtWriteToDir
    \/ RtReadSecond

SpecDir == InitDir /\ [][NextDir]_vars

\* ----------------------------------- specification of parse_arguments
\* The keys a config file can have, and the value each has when present.
ConfigValue ==
    [endpoint |-> "https://s3.one", bucket |-> "bucket-a", bucket_name |-> "x",
     region |-> "eu", access_key |-> "AK1", access_key_id |-> "a",
     secret_key |-> "SK1", access_key_secret |-> "s", object_prefix |-> "custom/",
     comment |-> "no such key"]

JsonObjects == {[k \in keys |-> ConfigValue[k]] : keys \in SUBSET DOMAIN ConfigValue}

InitParse ==
    /\ args \in [backend_type : {"s3"}, backend_config : {"/etc/s3.json"},
                  json : JsonObjects]
               \cup [backend_type : {"localfs", "ftp"}, backend_config : {"/blobs/a"},
                     json : {<<>>}]
    /\ parsed = NotParsed
    /\ heap = NoHeap
    /\ fs = NoFs
    /\ rt = NoRoundTrip
    /\ source_image = NoImage
    /\ target_image = NoImage
    /\ pc = "none"
    /\ i = 1
    /\ err = "none"
    /\ calls = <<>>
    /\ log = <<>>
    /\ store = {}
    /\ runs = 0
    /\ returned = <<>>
    /\ image = NoImage
    /\ new_backend = LocalA
    /\ new_image = NoImage
    /\ world = NoWorld
    /\ load = NoLoad
    /\ cmd = NoCmd
    /\ up = NoUp
    /\ saved = NothingSaved
    /\ rp = NoRepack
    /\ tools = <<>>

NextParse == ParseArguments

SpecParse == InitParse /\ [][NextParse]_vars

\* ------------------------------------------------ properties of copy_blobs
\* "Copy-compatible" as the data model defines it.
CopyCompatible(a, b) ==
    /\ a.bootstrap_local_path = b.bootstrap_local_path
    /\ Len(a.layers) = Len(b.layers)
    /\ \A k \in 1..Len(a.layers) : a.layers[k].digest = b.layers[k].digest

\* The layer indices at which the two descriptors name different backends.
DiffIdx ==
    {k \in 1..Min(Len(source_image.layers), Len(target_image.layers)) :
        source_image.layers[k].backend # target_image.layers[k].backend}

CallsOf(r) == SelectSeq(calls, LAMBDA c : c.run = r)

\* C1: when the descriptors are not copy-compatible (bootstrap paths differ,
\* layer counts differ, or a digest differs at some index) copy_blobs ends in a
\* ValueError with no rclone invocation made and no blob copied.
C1_PreconditionAborts ==
    ~CopyCompatible(source_image, target_image) =>
        /\ calls = <<>>
        /\ store = BlobsOf(source_image)
        /\ pc \in {"idle", "error"}
        /\ pc = "error" => err \in {"ValueError: bootstrap", "ValueError: layer count",
                                    "ValueError: digest"}

\* C1 witness: the mismatch is a digest at index 2, after a layer that needs a copy.
C1_Witness ==
    /\ pc = "error"
    /\ err = "ValueError: digest"
    /\ Len(source_image.layers) = 2
    /\ Len(target_image.layers) = 2
    /\ source_image.layers[1].digest = target_image.layers[1].digest
    /\ source_image.layers[1].backend # target_image.layers[1].backend
    /\ source_image.layers[2].digest # target_image.layers[2].digest

\* C2: blobs are processed one at a time in layer order, and a failed rclone run
\* on blob i ends copy_blobs at once: every blob before i is in its target
\* backend (skipped or copied by a successful run), no successful run exists for
\* i or a later blob, and no run at all for a blob after i.
C2_AbortOnFailure ==
    /\ \A r \in 1..runs :
          LET cs == CallsOf(r) IN
          \A k \in 1..Len(cs) - 1 :
              /\ cs[k].index < cs[k + 1].index
              /\ cs[k].returncode = 0
    /\ \A k \in 1..Len(CallsOf(runs)) :
          CallsOf(runs)[k].returncode # 0 =>
              /\ pc = "error"
              /\ err = "CalledProcessError"
              /\ CallsOf(runs)[k].index = i
    /\ (pc = "error" /\ err = "CalledProcessError") =>
          LET cs == CallsOf(runs) IN
          /\ Len(cs) > 0
          /\ cs[Len(cs)].index = i
          /\ cs[Len(cs)].returncode # 0
          /\ \A j \in 1..i - 1 :
                /\ Holds(store, target_image.layers[j].backend, target_image.layers[j].digest)
                /\ \/ source_image.layers[j].backend = target_image.layers[j].backend
                   \/ \E k \in 1..Len(cs) :
                         /\ cs[k].index = j
                         /\ cs[k].returncode = 0
                         /\ cs[k].digest = source_image.layers[j].digest
          /\ \A k \in 1..Len(cs) :
                /\ cs[k].index <= i
                /\ cs[k].returncode = 0 => cs[k].index < i

\* C2 witness: the first blob was copied, the run on the second failed.
C2_Witness ==
    /\ pc = "error"
    /\ err = "CalledProcessError"
    /\ runs = 1
    /\ i = 2
    /\ Len(calls) = 2
    /\ calls[1].returncode = 0

\* C3: for copy-compatible descriptors whose backends are equal at every index,
\* copy_blobs runs rclone zero times and does not end in an error.
C3_EqualBackendsNoop ==
    (CopyCompatible(source_image, target_image) /\ DiffIdx = {}) =>
        /\ calls = <<>>
        /\ err = "none"
        /\ pc \in {"idle", "loop", "done"}

\* C3 witness: a finished run over two layers on backends of both kinds.
C3_Witness ==
    /\ pc = "done"
    /\ CopyCompatible(source_image, target_image)
    /\ DiffIdx = {}
    /\ Len(source_image.layers) = 2
    /\ source_image.layers[1].backend.kind # source_image.layers[2].backend.kind

\* An rclone address that names the digest.
AddressHasDigest(path, digest) ==
    /\ "key" \in DOMAIN path
    /\ Len(path.key) > 0
    /\ path.key[Len(path.key)] = digest

\* The address the transport interface gives a backend: name:bucket/prefix+digest
\* for object storage, the bare blob directory for a local filesystem.
AddressOf(backend, name, digest) ==
    IF backend.kind = "s3"
    THEN [remote |-> name, bucket |-> backend.bucket,
          key |-> <<backend.object_prefix, digest>>]
    ELSE [dir |-> backend.blob_dir]

FirstRunEnded == runs = 1 /\ pc \in {"done", "error"}

\* C4 as stated: one differing layer gives exactly one rclone run, and both of
\* its addresses name that layer's digest, whatever the backend kinds.
C4_Original ==
    (CopyCompatible(source_image, target_image) /\ Cardinality(DiffIdx) = 1
        /\ FirstRunEnded) =>
        /\ Len(calls) = 1
        /\ \A k \in DiffIdx :
              /\ calls[1].index = k
              /\ AddressHasDigest(calls[1].source_path, source_image.layers[k].digest)
              /\ AddressHasDigest(calls[1].target_path, target_image.layers[k].digest)

\* C4 amended: one differing layer gives exactly one rclone run, made for that
\* layer's digest; an object-storage side is addressed name:bucket/prefix+digest
\* and a local-filesystem side by its blob directory alone.
C4_OneInvocation ==
    (CopyCompatible(source_image, target_image) /\ Cardinality(DiffIdx) = 1
        /\ FirstRunEnded) =>
        /\ Len(calls) = 1
        /\ \A k \in DiffIdx :
              /\ calls[1].index = k
              /\ calls[1].digest = source_image.layers[k].digest
              /\ calls[1].source_path =
                    AddressOf(source_image.layers[k].backend, "source",
                              source_image.layers[k].digest)
              /\ calls[1].target_path =
                    AddressOf(target_image.layers[k].backend, "target",
                              target_image.layers[k].digest)

\* C4 witness: the differing layer is the second one, object storage to object
\* storage, and the run has ended.
C4_Witness ==
    /\ CopyCompatible(source_image, target_image)
    /\ DiffIdx = {2}
    /\ FirstRunEnded
    /\ pc = "done"
    /\ source_image.layers[2].backend.kind = "s3"
    /\ target_image.layers[2].backend.kind = "s3"

\* Every blob either descriptor names.
Full == BlobsOf(source_image) \cup BlobsOf(target_image)

\* C7: for copy-compatible descriptors, whenever a run of copy_blobs completes,
\* whether the first run or a re-run after aborted ones, the storage holds
\* exactly the source's blobs and every digest at its target backend; and from
\* the first completed run on, later runs leave the storage as it is.
C7_RerunSafe ==
    CopyCompatible(source_image, target_image) =>
        /\ pc = "done" => store = Full
        /\ (\E r \in 1..Len(returned) : returned[r] = "done") => store = Full

\* C7 witness: the first run aborted on its second blob, the re-run completed.
C7_Witness ==
    /\ runs = 2
    /\ returned = <<"error">>
    /\ pc = "done"
    /\ Len(CallsOf(1)) = 2
    /\ CallsOf(1)[2].returncode # 0
    /\ Len(CallsOf(2)) = 2

\* -------------------------------------------- properties of change_backends
\* C5: change_backends(I, B) keeps I's bootstrap path, layer count and the
\* digest at every index, and binds every layer to B.
C5_ChangeBackends ==
    new_image # NoImage =>
        /\ new_image.bootstrap_local_path = image.bootstrap_local_path
        /\ Len(new_image.layers) = Len(image.layers)
        /\ \A k \in 1..Len(image.layers) :
              /\ new_image.layers[k].digest = image.layers[k].digest
              /\ new_image.layers[k].backend = new_backend

\* C5 witness: a two-layer image on two backends, rebound to a third.
C5_Witness ==
    /\ new_image # NoImage
    /\ Len(image.layers) = 2
    /\ image.layers[1].backend # image.layers[2].backend
    /\ image.layers[1].digest # image.layers[2].digest
    /\ new_backend \notin {image.layers[1].backend, image.layers[2].backend}

\* ------------------------------------------------- properties of download
\* The manifest is one download must reject: wrong schemaVersion, not exactly
\* one layer, or a missing or wrong nydus-bootstrap or nydus-fs-version
\* annotation.
MustReject(m) ==
    \/ m.schemaVersion # 2
    \/ Len(m.layers) # 1
    \/ \E k \in 1..Len(m.layers) :
          \/ m.layers[k].annotations.bootstrap # "true"
          \/ m.layers[k].annotations.fs_version # "6"

\* C10: a manifest with a schemaVersion other than 2, a layer count other than
\* 1, or a missing or wrong nydus-bootstrap or nydus-fs-version annotation is
\* rejected before any `regctl blob get` is run.
C10_RejectBeforeBlobGet ==
    (world.manifest # Absent /\ MustReject(world.manifest)) =>
        /\ load.gets = <<>>
        /\ load.pc # "returned"

\* --------------------------------------------- properties of the copy command
\* The target descriptor has been persisted: the manifest put, or the target
\* directory written.
Persisted == saved.manifest # Absent \/ saved.dir # Absent

\* C6: the copy command persists the target descriptor only after copy_blobs
\* completed for every layer; when loading the source or a blob copy failed
\* nothing is persisted and no registry write is made; so every digest of a
\* persisted descriptor is present in the target backend.
C6_PersistAfterCopy ==
    /\ (Persisted \/ up.puts # <<>>) =>
          /\ pc = "done"
          /\ i = Len(target_image.layers) + 1
    /\ Persisted =>
          /\ saved.image = target_image
          /\ \A k \in 1..Len(saved.image.layers) :
                /\ saved.image.layers[k].backend = cmd.target_backend
                /\ Holds(store, cmd.target_backend, saved.image.layers[k].digest)
    /\ (load.pc = "raised" \/ pc = "error") =>
          /\ ~Persisted
          /\ up.puts = <<>>
          /\ saved = NothingSaved

\* C6 witness: a manifest was put after two blobs were really copied.
C6_Witness ==
    /\ saved.manifest # Absent
    /\ Len(saved.image.layers) = 2
    /\ Len(calls) = 2
    /\ saved.image.layers[1].digest # saved.image.layers[2].digest

\* --------------------------------------------- properties of repack_image
StageOrder ==
    <<"START", "LOCALIZE_SOURCE", "UNPACK", "REPACK", "DERIVE_TARGET_LAYERS", "DONE">>
ToolOrder == <<"unpack", "create", "inspect">>

IsPrefix(a, b) ==
    /\ Len(a) <= Len(b)
    /\ \A k \in 1..Len(a) : a[k] = b[k]

\* The number of nydus-image stages among the first n stages of StageOrder.
ToolStages(n) == IF n <= 2 THEN 0 ELSE IF n >= 5 THEN 3 ELSE n - 2

\* C8: repack_image goes through START, LOCALIZE_SOURCE, UNPACK, REPACK,
\* DERIVE_TARGET_LAYERS, DONE in this order, none skipped or repeated; a stage's
\* tool runs only after every earlier stage succeeded; after a failed blob
\* copy, unpack, create or inspect no further tool runs, no step is taken and
\* no descriptor pair is returned.
C8_SequentialStages ==
    rp.pc # "none" =>
        /\ IsPrefix(rp.trace, StageOrder)
        /\ Len(tools) = ToolStages(Len(rp.trace))
        /\ \A k \in 1..Len(tools) : tools[k].tool = ToolOrder[k]
        /\ \A k \in 1..Len(tools) - 1 : tools[k].returncode = 0
        /\ Len(tools) > 0 =>
              /\ pc \in {"none", "done"}
              /\ \A k \in 1..Len(calls) : calls[k].returncode = 0
        /\ (\E k \in 1..Len(tools) : tools[k].returncode # 0) => rp.pc = "raised"
        /\ pc = "error" => rp.pc \in {"copying", "raised"} /\ tools = <<>>
        /\ (rp.pc = "raised" \/ pc = "error") =>
              /\ rp.repacked_image = NoImage
              /\ rp.temp_source_image = NoImage
              /\ rp.trace[Len(rp.trace)] # "DONE"
        /\ rp.pc = "raised" => ~ENABLED NextRepack
        /\ rp.pc = "returned" <=> rp.trace = StageOrder
        /\ rp.pc = "returned" =>
              /\ \A k \in 1..Len(tools) : tools[k].returncode = 0
              /\ rp.repacked_image # NoImage
              /\ rp.temp_source_image # NoImage

\* C8 witness: the blobs were pulled and unpacked, then create failed.
C8_Witness ==
    /\ rp.pc = "raised"
    /\ Len(calls) = 2
    /\ Len(tools) = 2
    /\ tools[2].tool = "create"
    /\ tools[2].returncode # 0

\* C9: a source whose blobs are all on one local-filesystem backend is used
\* where it is, with no rclone run; and whenever unpack is invoked, every source
\* layer's blob is present in the blob directory it is given, for every source
\* descriptor, one whose layers sit on different backends included.
C9_BlobsLocalAtUnpack ==
    /\ (rp.pc \notin {"none", "localize"}
          /\ Len(source_image.layers) > 0
          /\ \A k \in 1..Len(source_image.layers) :
                /\ source_image.layers[k].backend.kind = "localfs"
                /\ source_image.layers[k].backend = source_image.layers[1].backend) =>
          /\ calls = <<>>
          /\ rp.local_blob_dir = source_image.layers[1].backend.blob_dir
    /\ \A t \in 1..Len(tools) :
          tools[t].tool = "unpack" =>
              \A k \in 1..Len(source_image.layers) :
                  Holds(store, NydusLocalFilesystemBackend(tools[t].blob_dir),
                        source_image.layers[k].digest)

\* ------------------------------------- properties of the backend dispatch
\* C17: a copy_blobs call in which some layer's source or target backend is
\* neither an object-storage nor a local-filesystem backend never completes: it
\* ends in an error, also when that layer's two backends are equal.
C17_UnknownKindIsError ==
    pc = "done" =>
        \A k \in 1..Len(source_image.layers) :
            /\ KnownKind(source_image.layers[k].backend)
            /\ KnownKind(target_image.layers[k].backend)

\* The credentials of the object-storage backends a run involves.
Credentials ==
    UNION {{l.backend.access_key, l.backend.secret_key} :
              l \in {x \in Range(source_image.layers) \cup Range(target_image.layers) :
                         x.backend.kind = "s3"}}

\* C18: no log record of a copy_blobs run contains the access key or the
\* secret key of an object-storage backend.
C18_NoCredentialLogged ==
    pc \in {"idle", "loop", "done", "error"} =>
        \A r \in 1..Len(log) : \A a \in 1..Len(log[r].args) :
            log[r].args[a] \notin Credentials

\* ----------------------------------------------------- properties of upload
\* C11: the manifest upload builds has schemaVersion 2, a config entry of media
\* type application/vnd.oci.image.config.v1+json and exactly one layer of media
\* type application/vnd.oci.image.layer.v1.tar+gzip annotated nydus-bootstrap
\* "true" and nydus-fs-version "6", and so passes every manifest validation of
\* download.
C11_UploadPassesDownload ==
    saved.manifest # Absent =>
        /\ saved.manifest.schemaVersion = 2
        /\ saved.manifest.config.mediaType = OciConfigType
        /\ Len(saved.manifest.layers) = 1
        /\ saved.manifest.layers[1].mediaType = OciLayerType
        /\ saved.manifest.layers[1].annotations.bootstrap = "true"
        /\ saved.manifest.layers[1].annotations.fs_version = "6"
        /\ ManifestError(saved.manifest) = "none"
        /\ LayersError(saved.manifest) = "none"

UploadOrder == <<"blob put bootstrap", "blob put config", "manifest put">>

\* C12: upload writes to the registry in the order bootstrap blob, config blob,
\* manifest; each put is made only after every earlier one succeeded; the
\* manifest names exactly the digests the two blob puts returned; and when a
\* blob put fails no manifest is put.
C12_UploadOrder ==
    /\ Len(up.puts) <= Len(UploadOrder)
    /\ \A k \in 1..Len(up.puts) :
          /\ up.puts[k].call = UploadOrder[k]
          /\ k < Len(up.puts) => up.puts[k].returncode = 0
    /\ (\E k \in 1..Len(up.puts) : up.puts[k].returncode # 0) =>
          /\ up.pc = "raised"
          /\ saved.manifest = Absent
    /\ saved.manifest # Absent =>
          /\ Len(up.puts) = 3
          /\ saved.manifest.layers[1].digest = up.bootstrap_digest
          /\ saved.manifest.config.digest = up.config_digest
          /\ up.bootstrap_digest \in BootstrapDigests
          /\ up.config_digest \in ConfigDigests
          /\ {up.bootstrap_digest, up.config_digest} \subseteq saved.blobs

\* C12 witness: the bootstrap blob was put, the put of the config blob failed.
C12_Witness ==
    /\ up.pc = "raised"
    /\ Len(up.puts) = 2
    /\ up.puts[2].returncode # 0
    /\ up.bootstrap_digest = "sha256:b00t"

\* -------------------------------------- properties of repack_image's result
\* C13: the target descriptor repack_image returns has the bootstrap
\* `nydus-image create` wrote, the digests inspect read from that bootstrap, in
\* their order, every layer on the target backend, and the source's
\* image_config.
C13_RepackedDescriptor ==
    rp.pc = "returned" =>
        /\ rp.repacked_image.bootstrap_local_path = tools[2].bootstrap
        /\ tools[3].bootstrap = tools[2].bootstrap
        /\ Len(rp.repacked_image.layers) = Len(rp.created)
        /\ \A k \in 1..Len(rp.created) :
              /\ rp.repacked_image.layers[k].digest = rp.created[k]
              /\ rp.repacked_image.layers[k].backend = rp.target_backend
        /\ rp.repacked_image.image_config = source_image.image_config

\* C13 witness: the new bootstrap lists other digests than the source did.
C13_Witness ==
    /\ rp.pc = "returned"
    /\ rp.created = <<"cccccccc", "aaaaaaaa">>
    /\ Len(source_image.layers) = 2
    /\ source_image.layers[1].digest = "aaaaaaaa"
    /\ source_image.layers[2].digest = "bbbbbbbb"
    /\ rp.target_backend.kind = "s3"

\* Every layer of the descriptor is on a local-filesystem backend.
AllLocal(img) == \A k \in 1..Len(img.layers) : img.layers[k].backend.kind = "localfs"

\* C14: for a source whose blobs are local and a local-filesystem target
\* backend, repack_image returns a target whose bootstrap path is not the
\* source's and a temp source whose every layer is on the target backend, and
\* copy_blobs(temp_source, target) then runs rclone zero times.
C14_LocalRepackColocated ==
    /\ (rp.pc = "returned" /\ AllLocal(source_image)
            /\ rp.target_backend.kind = "localfs") =>
          /\ rp.repacked_image.bootstrap_local_path # source_image.bootstrap_local_path
          /\ \A k \in 1..Len(rp.temp_source_image.layers) :
                rp.temp_source_image.layers[k].backend = rp.target_backend
    /\ (rp.pc = "then_copy" /\ AllLocal(rp.repack_source)
            /\ rp.target_backend.kind = "localfs") =>
          /\ rp.repacked_image.bootstrap_local_path # rp.repack_source.bootstrap_local_path
          /\ CallsOf(runs) = <<>>
          /\ calls = <<>>
          /\ pc # "error"

\* C14 witness: copy_blobs has gone through two new blobs of a local repack.
C14_Witness ==
    /\ rp.pc = "then_copy"
    /\ pc = "done"
    /\ Len(rp.repack_source.layers) = 2
    /\ AllLocal(rp.repack_source)
    /\ rp.target_backend.kind = "localfs"
    /\ Len(source_image.layers) = 2

\* C15: whatever the kind of the target backend, the pair repack_image returns
\* is copy-compatible, and the temp source names the directory where create
\* wrote the blobs (the scratch directory when the target is not a local
\* filesystem), which holds them; copy_blobs(temp_source, target) raises no
\* precondition error, and for a target that is not local it runs rclone once
\* per blob.
C15_PairCopyCompatible ==
    /\ rp.pc \in {"returned", "then_copy"} =>
          /\ CopyCompatible(rp.temp_source_image, rp.repacked_image)
          /\ \A k \in 1..Len(rp.temp_source_image.layers) :
                /\ rp.temp_source_image.layers[k].backend =
                       NydusLocalFilesystemBackend(tools[2].blob_dir)
                /\ Holds(store, rp.temp_source_image.layers[k].backend,
                         rp.temp_source_image.layers[k].digest)
                /\ rp.target_backend.kind # "localfs" =>
                       rp.temp_source_image.layers[k].backend.blob_dir = RepackBlobs
    /\ rp.pc = "then_copy" =>
          /\ source_image = rp.temp_source_image
          /\ target_image = rp.repacked_image
          /\ pc = "error" => err = "CalledProcessError"
          /\ (pc = "done" /\ rp.target_backend.kind # "localfs") =>
                /\ Len(CallsOf(runs)) = Len(rp.repacked_image.layers)
                /\ \A k \in 1..Len(CallsOf(runs)) :
                      /\ CallsOf(runs)[k].index = k
                      /\ CallsOf(runs)[k].digest = rp.repacked_image.layers[k].digest
                      /\ CallsOf(runs)[k].returncode = 0

\* C15 witness: two new blobs were sent from the scratch directory to object
\* storage.
C15_Witness ==
    /\ rp.pc = "then_copy"
    /\ pc = "done"
    /\ rp.target_backend.kind = "s3"
    /\ Len(CallsOf(runs)) = 2
    /\ rp.created = <<"cccccccc", "aaaaaaaa">>

\* ------------------------------------- properties of temporary resources
\* The staging directories and files that exist.
TempResources ==
    (IF cmd.pc # "none" /\ cmd.temp_dir = "exists" THEN {"copy temp_dir"} ELSE {})
    \cup load.temp_files \cup up.temp_files
    \cup (IF rp.pc # "none" THEN rp.scratch ELSE {})
    \cup (IF rp.pc # "none" /\ rp.temp_dir = "exists" THEN {TempDir} ELSE {})

BadBlobId(id) ==
    \/ ~BlobIdInfo[id].is_str
    \/ BlobIdInfo[id].chars = <<>>
    \/ \E k \in 1..Len(BlobIdInfo[id].chars) : BlobIdInfo[id].chars[k] \notin HexChars
    \/ Len(BlobIdInfo[id].chars) < 8

DigestsOf(img) == [k \in 1..Len(img.layers) |-> img.layers[k].digest]

\* C19: when the inspection output has a blob id that is not a string, is
\* empty, is not all hexadecimal or is shorter than 8 characters,
\* get_blob_digests fails and read_from_dir, download and repack_image return no
\* descriptor; otherwise the digests of the descriptor returned are the blob
\* ids, in their order.
C19_DigestValidation ==
    /\ load.pc # "none" =>
          /\ (\E k \in 1..Len(world.inspect_blobs) : BadBlobId(world.inspect_blobs[k])) =>
                /\ load.pc # "returned"
                /\ source_image = NoImage
                /\ cmd.pc \in {"loading", "failed"}
          /\ load.pc = "returned" => DigestsOf(source_image) = world.inspect_blobs
    /\ rp.pc # "none" =>
          /\ (\E k \in 1..Len(rp.created) : BadBlobId(rp.created[k])) =>
                /\ rp.pc \in {"inspect", "raised", "exited"}
                /\ rp.repacked_image = NoImage
                /\ rp.temp_source_image = NoImage
          /\ rp.repacked_image # NoImage =>
                /\ DigestsOf(rp.repacked_image) = rp.created
                /\ DigestsOf(rp.temp_source_image) = rp.created

\* C19 witness: a directory's bootstrap lists a good digest, then a short one.
C19_Witness ==
    /\ load.pc = "raised"
    /\ load.error = "AssertionError"
    /\ cmd.source_kind = "dir"
    /\ world.inspect_blobs = <<"aaaaaaaa", "abc123">>

\* ------------------------------------ properties of the directory round trip
\* C20: write_to_dir(read_from_dir(D, B), D2) and then read_from_dir(D2, B)
\* gives a descriptor with the digest sequence and the image_config
\* (architecture, os, config) of the first read, also when D has no config.json
\* or its config is absent; the second read fails only if inspect itself does.
C20_DirRoundTrip ==
    /\ rt.pc = "done" =>
          /\ DigestsOf(rt.second) = DigestsOf(rt.first)
          /\ rt.second.image_config.architecture = rt.first.image_config.architecture
          /\ rt.second.image_config.os = rt.first.image_config.os
          /\ rt.second.image_config.config = rt.first.image_config.config
    /\ rt.pc = "raised_again" => rt.error = "CalledProcessError"

\* C20 witness: D had no config.json, D2 held another image, and the second
\* read gave two digests.
C20_Witness ==
    /\ rt.pc = "done"
    /\ rt.D2 # rt.D
    /\ fs[rt.D].config = Absent
    /\ Len(rt.second.layers) = 2
    /\ rt.second.layers[1].digest # rt.second.layers[2].digest

\* ----------------------------------------- properties of parse_arguments
\* The object the claim gives as input.
AliasOnlyConfig == [bucket_name |-> "x", access_key_id |-> "a", access_key_secret |-> "s"]

\* What a key of the file ends up as: an alias as its canonical key.
Canonical(k) ==
    IF k = "bucket_name" THEN "bucket"
    ELSE IF k = "access_key_id" THEN "access_key"
    ELSE IF k = "access_key_secret" THEN "secret_key"
    ELSE k

\* C21 as stated: {"bucket_name": "x", "access_key_id": "a",
\* "access_key_secret": "s"} gives a backend with bucket "x", access_key "a",
\* secret_key "s" and object_prefix "nydus/", and parsing an s3 config never
\* fails hard.
C21_Original ==
    (parsed.pc = "ended" /\ args.backend_type = "s3") =>
        /\ parsed.raised = "none"
        /\ args.json = AliasOnlyConfig =>
              /\ parsed.backend.bucket = "x"
              /\ parsed.backend.access_key = "a"
              /\ parsed.backend.secret_key = "s"
              /\ parsed.backend.object_prefix = "nydus/"

\* C21 amended: an s3 config that, aliases counted, names endpoint, bucket,
\* region, access key and secret key gives a backend; an alias sets its
\* canonical field, a missing object_prefix becomes "nydus/", and unknown keys
\* give one warning and no failure.  A config that lacks one of the five fails
\* with TypeError, as the object of three aliases does.
C21_ConfigParsing ==
    (parsed.pc = "ended" /\ args.backend_type = "s3") =>
        LET named == {Canonical(k) : k \in DOMAIN args.json}
            unknown == named \ ExpectedKeys IN
        /\ parsed.raised = IF RequiredKeys \subseteq named THEN "none" ELSE "TypeError"
        /\ parsed.warnings = IF unknown = {} THEN <<>> ELSE <<unknown>>
        /\ parsed.raised = "none" =>
              /\ parsed.backend.kind = "s3"
              /\ "bucket_name" \in DOMAIN args.json =>
                    parsed.backend.bucket = args.json["bucket_name"]
              /\ "access_key_id" \in DOMAIN args.json =>
                    parsed.backend.access_key = args.json["access_key_id"]
              /\ "access_key_secret" \in DOMAIN args.json =>
                    parsed.backend.secret_key = args.json["access_key_secret"]
              /\ parsed.backend.object_prefix =
                    IF "object_prefix" \in DOMAIN args.json
                    THEN args.json["object_prefix"] ELSE "nydus/"
              /\ parsed.backend.endpoint = args.json["endpoint"]
              /\ parsed.backend.region = args.json["region"]

\* C21 witness: the three aliases with endpoint, region and an unknown key.
C21_Witness ==
    /\ parsed.pc = "ended"
    /\ args.backend_type = "s3"
    /\ DOMAIN args.json = {"bucket_name", "access_key_id", "access_key_secret",
                           "endpoint", "region", "comment"}
    /\ parsed.raised = "none"
    /\ parsed.warnings # <<>>

\* ----------------------------------------- properties of change_backends
\* The references of the objects in the list of a descriptor.
RefsOf(h, desc) == {h.lists[desc.layers][k] : k \in 1..Len(h.lists[desc.layers])}

\* C22: after change_backends, and after any later change to the layer list
\* of the result, the input descriptor has the bootstrap path, the layer list
\* object, the layers (digest and backend each) and the image_config it had
\* before the call; the result is another descriptor with another list object
\* and other layer objects, and was returned with every layer on new_backend.
C22_ChangeBackendsPure ==
    heap.pc = "changed" =>
        /\ heap.source = Descriptor(image.bootstrap_local_path, 1, image.image_config)
        /\ heap.lists[1] = [k \in 1..Len(image.layers) |-> k]
        /\ Deref(heap, heap.source) = image
        /\ heap.result.layers # heap.source.layers
        /\ RefsOf(heap, heap.result) \cap RefsOf(heap, heap.source) = {}
        /\ new_image = change_backends(image, new_backend)

\* C22 witness: the list of the result was changed after the call and is no
\* longer as long as the two-layer list of the source.
C22_Witness ==
    /\ heap.pc = "changed"
    /\ heap.steps > 0
    /\ Len(image.layers) = 2
    /\ Len(heap.lists[heap.result.layers]) # 2
    /\ image.layers[1].backend # new_backend

\* -------------------------- properties of copy_blobs: when errors are raised
\* C23: when some layer of a copy_blobs call, at any index, has a source or
\* target backend of an unrecognized kind, no rclone run is made for any layer.
C23_UnknownKindBeforeTransport ==
    (\E k \in 1..Len(source_image.layers) :
        /\ k <= Len(target_image.layers)
        /\ \/ ~KnownKind(source_image.layers[k].backend)
           \/ ~KnownKind(target_image.layers[k].backend))
    => calls = <<>>

\* --------------------------------- properties of external-tool failures
\* The positions of the invocations that exited non-zero.
FailedAt(invocations) ==
    {k \in 1..Len(invocations) : invocations[k].returncode # 0}

\* A failed invocation is the last one: nothing is run after it, itself included.
EndsAtFailure(invocations) == FailedAt(invocations) \subseteq {Len(invocations)}

\* C24: in download and read_from_dir, copy_blobs, upload and repack_image, an
\* external tool that exits non-zero is the last invocation of the operation
\* (no retry, nothing after it), the operation ends with that error, and no
\* descriptor comes back from it; the operations after it never start.
C24_NoPartialSuccess ==
    /\ EndsAtFailure(load.invocations)
    /\ FailedAt(load.invocations) # {} =>
          /\ load.pc = "raised"
          /\ load.error = "CalledProcessError"
          /\ source_image = NoImage
          /\ target_image = NoImage
          /\ calls = <<>>
          /\ up.puts = <<>>
    /\ \A r \in 1..runs :
          /\ EndsAtFailure(CallsOf(r))
          /\ FailedAt(CallsOf(r)) # {} =>
                /\ r = runs
                /\ pc = "error"
                /\ err = "CalledProcessError"
                /\ up.puts = <<>>
                /\ saved = NothingSaved
                /\ (rp.pc # "none" /\ rp.repack_source = NoImage) =>
                      /\ rp.pc \in {"copying", "raised", "exited"}
                      /\ tools = <<>>
                      /\ rp.repacked_image = NoImage
                      /\ rp.temp_source_image = NoImage
    /\ EndsAtFailure(up.puts)
    /\ FailedAt(up.puts) # {} =>
          /\ up.pc = "raised"
          /\ saved.manifest = Absent
          /\ cmd.pc \in {"saving", "failed"}
    /\ EndsAtFailure(tools)
    /\ FailedAt(tools) # {} =>
          /\ rp.pc \in {"raised", "exited"}
          /\ rp.error \in {"RuntimeError", "CalledProcessError"}
          /\ rp.repacked_image = NoImage
          /\ rp.temp_source_image = NoImage

\* C24 witness: a download whose fourth tool run, the inspect, failed after
\* the manifest and both blobs had arrived.
C24_Witness ==
    /\ FailedAt(load.invocations) = {4}
    /\ load.pc = "raised"
    /\ cmd.pc = "failed"

\* ------------------------------------- properties of the skip decision
\* Two backends of the same kind with every field of that kind equal.
AllFieldsEqual(a, b) ==
    /\ a.kind = b.kind
    /\ a.kind = "s3" =>
          /\ a.endpoint = b.endpoint
          /\ a.bucket = b.bucket
          /\ a.region = b.region
          /\ a.access_key = b.access_key
          /\ a.secret_key = b.secret_key
          /\ a.object_prefix = b.object_prefix
    /\ a.kind = "localfs" => a.blob_dir = b.blob_dir

\* The layers copy_blob has dealt with: those before i, and layer i when its
\* rclone run failed.
Handled ==
    {k \in 1..Len(source_image.layers) :
        /\ pc \in {"loop", "done", "error"}
        /\ err \in {"none", "CalledProcessError"}
        /\ \/ k < i
           \/ k = i /\ pc = "error"}

\* C25: a layer copy_blob has dealt with got no rclone run iff its source and
\* target backends are of the same kind and equal in every field; in
\* particular a differing access key or secret key alone gives a run, and so
\* does an object-storage backend against a local one.
C25_SkipIffAllFieldsEqual ==
    \A k \in Handled :
        LET a == source_image.layers[k].backend
            b == target_image.layers[k].backend
            ran == \E c \in 1..Len(calls) : calls[c].index = k IN
        /\ ~ran <=> AllFieldsEqual(a, b)
        /\ (a.kind = "s3" /\ b.kind = "s3"
               /\ (a.access_key # b.access_key \/ a.secret_key # b.secret_key)) => ran
        /\ a.kind # b.kind => ran

\* C25 witness: a finished copy whose first layer was skipped and whose
\* second, to the same bucket under another secret key, was copied.
C25_Witness ==
    /\ pc = "done"
    /\ Len(source_image.layers) = 2
    /\ source_image.layers[1].backend = S3A
    /\ target_image.layers[1].backend = S3A
    /\ source_image.layers[2].backend = S3A
    /\ target_image.layers[2].backend = S3AOtherSecret
    /\ Len(calls) = 1
    /\ calls[1].index = 2

\* ------------------------------------ properties of copier.py's assertions
\* The environment variable of a config name's upper-cased prefix.
EnvVar(name, var, value) == <<<<"RCLONE_CONFIG", name, var>>, value>>

\* C26: in a run entered through copy_blobs every copy_blob call gets two
\* blobs of one digest; the config names of every rclone run are lowercase and
\* differ; and when both backends are object storage the environment of the
\* run has all ten variables, the source's keys under SOURCE and the target's
\* under TARGET.
C26_AssertionsHold ==
    /\ pc = "loop" =>
          /\ i <= Len(source_image.layers)
          /\ i <= Len(target_image.layers)
          /\ source_image.layers[i].digest = target_image.layers[i].digest
    /\ \A n \in 1..Len(calls) :
          LET c == calls[n]
              s == source_image.layers[c.index]
              t == target_image.layers[c.index] IN
          /\ c.digest = s.digest
          /\ c.digest = t.digest
          /\ Lower[c.source_name] = c.source_name
          /\ Lower[c.target_name] = c.target_name
          /\ c.source_name # c.target_name
          /\ (s.backend.kind = "s3" /\ t.backend.kind = "s3") =>
                /\ Cardinality({e[1] : e \in c.env}) = 10
                /\ Cardinality(c.env) = 10
                /\ EnvVar("SOURCE", "ACCESS_KEY_ID", s.backend.access_key) \in c.env
                /\ EnvVar("SOURCE", "SECRET_ACCESS_KEY", s.backend.secret_key) \in c.env
                /\ EnvVar("TARGET", "ACCESS_KEY_ID", t.backend.access_key) \in c.env
                /\ EnvVar("TARGET", "SECRET_ACCESS_KEY", t.backend.secret_key) \in c.env

\* C26 witness: an rclone run between two object-storage backends whose
\* access keys differ.
C26_Witness ==
    \E n \in 1..Len(calls) :
        /\ source_image.layers[calls[n].index].backend = S3A
        /\ target_image.layers[calls[n].index].backend = S3AOtherKey
        /\ Cardinality(calls[n].env) = 10

====
